---------------------------- MODULE Spec2Model ----------------------------
(***************************************************************************)
(* Model of the agentic control layer of nfl-agents:                       *)
(*   - the SQL safety gate and the query executor (backend/sql_agent.py),  *)
(*   - the SQL sub-agent loop run_sql_agent (backend/sql_agent.py),        *)
(*   - the orchestrator loop run_unified_agent                             *)
(*     (unified-agent/unified_agent.py) and its tool wrappers              *)
(*     (unified-agent/tools.py),                                           *)
(*   - the functions of the pipeline on their own: the JSON extractor      *)
(*     (utils/llm_parsing.py), the name normaliser (backend/sql_agent.py), *)
(*     the query refiner and the web search (web-agent/web_agent_utils.py),*)
(*     the oracle client call_llm_messages and the chunking of a document  *)
(*     (web-agent/web_agent_utils.py),                                     *)
(*   - the operations that open a database connection (execute_sql,        *)
(*     insert_embeddings_into_db, retrieve_top_k_chunks).                  *)
(*                                                                         *)
(* Text is a sequence of one-character strings, so that strip(), lower(),  *)
(* startswith() and the substring test `kw in s` are computed character by *)
(* character as Python computes them.  A JSON field of an oracle response  *)
(* is absent, null, a string, a number or a list.                          *)
(***************************************************************************)
EXTENDS Integers, Sequences, FiniteSets, TLC

VARIABLES
    mode,          \* which entry point runs: "exec", "sql", "unified", "db", or a function
    max_steps,     \* the step ceiling of the running loop
    name_norm,     \* the result of the name normalisation step of the run
    pc,            \* control location of the running entry point
    step,          \* the loop variable `step`
    history,       \* the loop's history list
    context,       \* context["history"] as serialised for the latest oracle call
    oracle_calls,  \* number of loop oracle calls made so far
    responses,     \* the responses the loop oracle calls returned, in order
    parsed,        \* the parsed oracle response of the current step
    sql,           \* argument of the current execute_sql call
    gate,          \* verdict of validate_sql_readonly in the current execute_sql call
    conn,          \* the connection of the current execute_sql call
    conns_opened,  \* number of connections opened so far
    db_log,        \* the statements handed to cur.execute, in order
    fetched,       \* what cur.fetchall() gave in the current execute_sql call
    exc,           \* the exception in flight, NoExc when there is none: its message,
                   \* the banned keyword found (gate), the step index it carries,
                   \* the oracle text it carries
    tool_calls,    \* the sub-agent invocations made by the orchestrator, in order
    result,        \* the value returned by the entry point (NoResult before it returns)
    arg,           \* the argument of the function under call (oracle text, search hits)
    ops_done,      \* number of database operations that have exited
    conns_closed,  \* number of connections closed so far
    start_idx,     \* the chunking loop's start_idx
    chunks,        \* the chunking loop's chunks list
    store,         \* the committed rows of the table web_chunks
    pending,       \* the table as the open transaction of the current insert sees it
    rows,          \* the rows of the current retrieval
    store_before,  \* the table as it was when the current operation started
    main,          \* the locals of one pass of web_agent.main: refined_queries,
                   \* results, the position of the loop over them, the calls made
    conversations, \* app.py: the process-wide map conv_id -> list object
    heap,          \* the list objects of the chat server, by reference
    threads,       \* the request handlers of the chat server: position and locals
    added          \* the messages appended under each conversation id since its
                   \* last clear, and the numbers of messages and requests so far

vars == <<mode, max_steps, name_norm, pc, step, history, context, oracle_calls,
          responses, parsed, sql, gate, conn, conns_opened, db_log, fetched, exc,
          tool_calls, result, arg, ops_done, conns_closed,
          start_idx, chunks, store, pending, rows, store_before,
          main, conversations, heap, threads, added>>

-----------------------------------------------------------------------------
(* Bounds of the model *)

\* largest step ceiling explored for either loop
MaxSteps == 3
\* largest number of body fragments after the head of a generated SQL string
MaxFrags == 2
\* largest number of entries of a "players" list in a normaliser response
MaxMentions == 2
\* largest number of pieces of a generated oracle text
MaxToks == 4
\* largest number of refined queries of one search, and of hits of one query
MaxQueries == 2
MaxHits == 2
\* largest number of database operations called one after the other
MaxOps == 3
\* largest number of tokens of an extracted text
MaxTokens == 1000
\* largest number of requests the chat server handles
MaxRequests == 2

-----------------------------------------------------------------------------
(* Python str operations on character sequences *)

UpperChars == <<"A", "B", "C", "D", "E", "F", "G", "H", "I", "J", "K", "L", "M",
                "N", "O", "P", "Q", "R", "S", "T", "U", "V", "W", "X", "Y", "Z">>
LowerChars == <<"a", "b", "c", "d", "e", "f", "g", "h", "i", "j", "k", "l", "m",
                "n", "o", "p", "q", "r", "s", "t", "u", "v", "w", "x", "y", "z">>

\* the characters str.strip() removes
Whitespace == {" ", "\t", "\n", "\r"}

lower_table ==
    [c \in {UpperChars[i] : i \in DOMAIN UpperChars} |->
        LowerChars[CHOOSE i \in DOMAIN UpperChars : UpperChars[i] = c]]

lower_char(c) == IF c \in DOMAIN lower_table THEN lower_table[c] ELSE c

\* str.lower()
lower(s) == [i \in 1..Len(s) |-> lower_char(s[i])]

\* str.strip()
strip(s) ==
    LET keep == {i \in 1..Len(s) : s[i] \notin Whitespace}
    IN  IF keep = {} THEN <<>>
        ELSE LET first == CHOOSE i \in keep : \A j \in keep : i <= j
                 last  == CHOOSE i \in keep : \A j \in keep : j <= i
             IN  SubSeq(s, first, last)

\* str.startswith(p)
startswith(s, p) == Len(p) <= Len(s) /\ SubSeq(s, 1, Len(p)) = p

\* the substring test `p in s`
contains(s, p) ==
    \E i \in 1..(Len(s) - Len(p) + 1) : SubSeq(s, i, i + Len(p) - 1) = p

-----------------------------------------------------------------------------
(* SQL guardrails *)

BANNED_SQL_KEYWORDS ==
    << <<"i", "n", "s", "e", "r", "t">>,
       <<"u", "p", "d", "a", "t", "e">>,
       <<"d", "e", "l", "e", "t", "e">>,
       <<"a", "l", "t", "e", "r">>,
       <<"d", "r", "o", "p">>,
       <<"t", "r", "u", "n", "c", "a", "t", "e">>,
       <<"c", "r", "e", "a", "t", "e">>,
       <<"g", "r", "a", "n", "t">>,
       <<"r", "e", "v", "o", "k", "e">>,
       <<"m", "e", "r", "g", "e">>,
       <<"c", "a", "l", "l">>,
       <<"e", "x", "e", "c", "u", "t", "e">> >>

kw_select == <<"s", "e", "l", "e", "c", "t">>
kw_with   == <<"w", "i", "t", "h">>

MustBeSelect == "Rejected SQL (must be SELECT/WITH)"
BannedKeyword == "Rejected SQL (banned keyword)"

\* the characters of an SQL identifier
WordChars ==
    {UpperChars[i] : i \in 1..Len(UpperChars)} \cup {LowerChars[i] : i \in 1..Len(LowerChars)}
    \cup {"_", "0", "1", "2", "3", "4", "5", "6", "7", "8", "9"}

\* p occurs in s as a whole word
contains_word(s, p) ==
    \E i \in 1..(Len(s) - Len(p) + 1) :
        /\ SubSeq(s, i, i + Len(p) - 1) = p
        /\ (i = 1 \/ s[i - 1] \notin WordChars)
        /\ (i + Len(p) - 1 = Len(s) \/ s[i + Len(p)] \notin WordChars)

\* Variant of the gate that forgets .lower(): the comparison is case-sensitive.
validate_sql_case_sensitive(q) ==
    LET s == strip(q)
        hits == {k \in 1..Len(BANNED_SQL_KEYWORDS) : contains(s, BANNED_SQL_KEYWORDS[k])}
    IN  IF ~(startswith(s, kw_select) \/ startswith(s, kw_with))
        THEN [ok |-> FALSE, msg |-> MustBeSelect, kw |-> 0]
        ELSE IF hits # {}
        THEN [ok |-> FALSE, msg |-> BannedKeyword,
              kw |-> CHOOSE k \in hits : \A j \in hits : k <= j]
        ELSE [ok |-> TRUE, msg |-> "", kw |-> 0]

\* Variant of the gate that matches the deny-list on word boundaries.
validate_sql_word_boundary(q) ==
    LET s == lower(strip(q))
        hits == {k \in 1..Len(BANNED_SQL_KEYWORDS) :
                    contains_word(s, BANNED_SQL_KEYWORDS[k])}
    IN  IF ~(startswith(s, kw_select) \/ startswith(s, kw_with))
        THEN [ok |-> FALSE, msg |-> MustBeSelect, kw |-> 0]
        ELSE IF hits # {}
        THEN [ok |-> FALSE, msg |-> BannedKeyword,
              kw |-> CHOOSE k \in hits : \A j \in hits : k <= j]
        ELSE [ok |-> TRUE, msg |-> "", kw |-> 0]

\* validate_sql_readonly returns None or raises ValueError; the verdict is
\* [ok |-> TRUE] or the error raised: its message and, for a banned keyword,
\* the position in BANNED_SQL_KEYWORDS of the first keyword found.
validate_sql_readonly(q) ==
    LET s == lower(strip(q))
        hits == {k \in 1..Len(BANNED_SQL_KEYWORDS) : contains(s, BANNED_SQL_KEYWORDS[k])}
    IN  IF ~(startswith(s, kw_select) \/ startswith(s, kw_with))
        THEN [ok |-> FALSE, msg |-> MustBeSelect, kw |-> 0]
        ELSE IF hits # {}
        THEN [ok |-> FALSE, msg |-> BannedKeyword,
              kw |-> CHOOSE k \in hits : \A j \in hits : k <= j]
        ELSE [ok |-> TRUE, msg |-> "", kw |-> 0]

-----------------------------------------------------------------------------
(* The SQL strings the gate is exercised on: optional leading whitespace,  *)
(* a head, up to MaxFrags body fragments, optional trailing whitespace.    *)

Lead  == { <<>>, <<" ", "\n">> }
Trail == { <<>>, <<"\t", " ">> }

Heads == { <<>>,
           <<"s", "e", "l", "e", "c", "t">>,
           <<"S", "E", "L", "E", "C", "T">>,
           <<"S", "e", "l", "e", "c", "t">>,
           <<"w", "i", "t", "h">>,
           <<"W", "I", "T", "H">>,
           <<"e", "x", "p", "l", "a", "i", "n">> }

Frags == { <<" ", "x">>,
           <<" ">>,
           <<";">>,
           <<"c", "r", "e", "a", "t", "e", "d", "_", "a", "t">>,
           <<"'", "D", "R", "O", "P", "T", "A", "B", "L", "E", "'">>,
           <<"s", "e", "l", "e", "c", "t">>,
           <<"I", "N", "S", "E", "R", "T">>,
           <<"U", "p", "d", "a", "t", "e">>,
           <<"d", "e", "l", "e", "t", "e">>,
           <<"A", "l", "t", "e", "r">>,
           <<"D", "R", "O", "P">>,
           <<"t", "r", "u", "n", "c", "a", "t", "e">>,
           <<"C", "r", "e", "a", "t", "e">>,
           <<"g", "r", "a", "n", "t">>,
           <<"R", "E", "V", "O", "K", "E">>,
           <<"M", "e", "r", "g", "e">>,
           <<"c", "a", "l", "l">>,
           <<"E", "X", "E", "C", "U", "T", "E">> }

RECURSIVE Bodies(_)
Bodies(n) ==
    IF n = 0 THEN { <<>> }
    ELSE LET shorter == Bodies(n - 1)
         IN  shorter \cup { b \o f : b \in shorter, f \in Frags }

GateInputs ==
    { l \o h \o b \o t : l \in Lead, h \in Heads, b \in Bodies(MaxFrags), t \in Trail }

\* the SQL strings the oracle proposes inside the loops
sql_select_x      == <<"s", "e", "l", "e", "c", "t", " ", "x">>
sql_select_x_semi == <<"S", "E", "L", "E", "C", "T", " ", "x", ";">>
sql_drop          == <<"D", "R", "O", "P", " ", "x">>
sql_created_at    == <<"s", "e", "l", "e", "c", "t", " ",
                       "c", "r", "e", "a", "t", "e", "d", "_", "a", "t">>

LoopSqls == { sql_select_x, sql_select_x_semi, sql_drop, sql_created_at }

\* a JSON number in the place of a string: a text is a sequence of
\* one-character strings, so no text holds this element
not_a_str == "<int>"
sql_int   == <<not_a_str>>

\* isinstance(v, str)
is_str(v) == \A i \in DOMAIN v : v[i] # not_a_str

-----------------------------------------------------------------------------
(* JSON values of the fields of an oracle response *)

JAbsent == [t |-> "absent"]
JNull   == [t |-> "null"]
JStr(v) == [t |-> "str", v |-> v]
JInt(v) == [t |-> "int", v |-> v]

\* dict.get(key): None when the key is absent
get(obj, key) == IF obj[key] = JAbsent THEN JNull ELSE obj[key]

\* dict.get(key, default)
get_default(obj, key, default) == IF obj[key] = JAbsent THEN default ELSE obj[key]

\* Python truthiness of a field value: None and "" are falsy, a number other
\* than 0 is truthy
truthy(v) == v.t \in {"str", "int"} /\ v.v # <<>>

NoResponse == [kind |-> "none"]

-----------------------------------------------------------------------------
(* execute_sql: gate, scoped connection, execute, fetch, close *)

\* no exception in flight; nothing returned yet
NoExc    == [msg |-> "", kw |-> 0, step |-> 0, text |-> {}]
NoResult == [kind |-> "none"]

\* an exception whose message carries no step index and no oracle text, and one
\* whose message carries step index n (0: none) and oracle text: the raw
\* response ("raw"), the extracted candidate ("clean"), the parsed object
\* ("parsed")
Err(msg)      == [msg |-> msg, kw |-> 0, step |-> 0, text |-> {}]
ErrWith(msg, n, text) == [msg |-> msg, kw |-> 0, step |-> n, text |-> text]

\* no function argument
NoArg == [kind |-> "none"]

\* no pass of web_agent.main is running
NoMain == [at |-> "none"]

DbError      == "database error"
ConnectError == "connection failed"
AttributeError == "AttributeError"

\* Variant of line 341 in which the verdict of the gate is not acted upon.
ValidateIgnoringVerdict ==
    /\ pc = "validate"
    /\ gate' = IF validate_sql_readonly(sql).ok THEN "accepted" ELSE "rejected"
    /\ pc' = "connect"
    /\ exc' = exc
    /\ UNCHANGED <<start_idx, chunks, store, pending, rows, store_before>>
    /\ UNCHANGED <<main, conversations, heap, threads, added>>
    /\ UNCHANGED <<arg, ops_done, conns_closed>>
    /\ UNCHANGED <<mode, max_steps, name_norm, step, history, context, oracle_calls,
                   responses, parsed, sql, conn, conns_opened, db_log, fetched,
                   tool_calls, result>>

\* line 341: validate_sql_readonly(sql) returns, or raises ValueError; on a
\* value that is not a str, sql.strip() (line 312) raises AttributeError
Validate ==
    /\ pc = "validate"
    /\ IF ~is_str(sql)
       THEN /\ gate' = gate
            /\ pc' = "raised"
            /\ exc' = Err(AttributeError)
       ELSE LET v == validate_sql_readonly(sql)
            IN  IF v.ok
                THEN /\ gate' = "accepted"
                     /\ pc' = "connect"
                     /\ exc' = exc
                ELSE /\ gate' = "rejected"
                     /\ pc' = "raised"
                     /\ exc' = [msg |-> v.msg, kw |-> v.kw, step |-> 0, text |-> {}]
    /\ UNCHANGED <<start_idx, chunks, store, pending, rows, store_before>>
    /\ UNCHANGED <<main, conversations, heap, threads, added>>
    /\ UNCHANGED <<arg, ops_done, conns_closed>>
    /\ UNCHANGED <<mode, max_steps, name_norm, step, history, context, oracle_calls,
                   responses, parsed, sql, conn, conns_opened, db_log, fetched,
                   tool_calls, result>>

\* line 343: psycopg2.connect(db_url) gives a connection, or raises
Connect ==
    /\ pc = "connect"
    /\ \/ /\ conn' = "open"
          /\ conns_opened' = conns_opened + 1
          /\ pc' = "execute"
          /\ exc' = exc
       \/ /\ exc' = Err(ConnectError)
          /\ pc' = "raised"
          /\ UNCHANGED <<conn, conns_opened>>
    /\ UNCHANGED <<start_idx, chunks, store, pending, rows, store_before>>
    /\ UNCHANGED <<main, conversations, heap, threads, added>>
    /\ UNCHANGED <<arg, ops_done, conns_closed>>
    /\ UNCHANGED <<mode, max_steps, name_norm, step, history, context, oracle_calls,
                   responses, parsed, sql, gate, db_log, fetched, tool_calls, result>>

\* lines 345-352: cur.execute(sql); cur.fetchall(); rows, no rows, or an error
Execute ==
    /\ pc = "execute"
    /\ db_log' = Append(db_log, sql)
    /\ \/ /\ fetched' \in {"rows", "empty"}
          /\ exc' = exc
       \/ /\ exc' = Err(DbError)
          /\ fetched' = fetched
    /\ pc' = "close"
    /\ UNCHANGED <<start_idx, chunks, store, pending, rows, store_before>>
    /\ UNCHANGED <<main, conversations, heap, threads, added>>
    /\ UNCHANGED <<arg, ops_done, conns_closed>>
    /\ UNCHANGED <<mode, max_steps, name_norm, step, history, context, oracle_calls,
                   responses, parsed, sql, gate, conn, conns_opened, tool_calls,
                   result>>

\* lines 353-354: finally: conn.close(), then the return or the exception goes on
Close ==
    /\ pc = "close"
    /\ conn' = "closed"
    /\ conns_closed' = conns_closed + 1
    /\ pc' = IF exc = NoExc THEN "returned" ELSE "raised"
    /\ UNCHANGED <<start_idx, chunks, store, pending, rows, store_before>>
    /\ UNCHANGED <<main, conversations, heap, threads, added>>
    /\ UNCHANGED <<arg, ops_done>>
    /\ UNCHANGED <<mode, max_steps, name_norm, step, history, context, oracle_calls,
                   responses, parsed, sql, gate, conns_opened, db_log, fetched, exc,
                   tool_calls, result>>

execute_sql == Validate \/ Connect \/ Execute \/ Close

-----------------------------------------------------------------------------
(* Oracle responses: what call_llm_messages, extract_json_object and       *)
(* json.loads leave the loop with at one step                              *)

\* the exceptions of the loops, by what their message says
TransportError   == "call_llm_messages raised"
NormalizerError  == "normalize_player_name raised"
InvalidJson      == "did not return valid JSON"
TypeError        == "TypeError"
MissingAnswer    == "FINISH action missing final_answer"
MissingSql       == "CALL_SQL action missing 'sql'"
UnexpectedAction == "Unexpected action"
WebPipelineError == "web pipeline failed"

\* tools.py line 28: run_sql_agent(question, max_steps=10, ...)
SqlAgentMaxSteps == 10

\* the canned answer of run_sql_agent (lines 512-516)
SQL_INCONCLUSIVE ==
    <<"I", " ", "w", "a", "s", " ", "n", "o", "t", " ", "a", "b", "l", "e",
      " ", "t", "o", " ", "c", "o", "n", "f", "i", "d", "e", "n", "t", "l",
      "y", " ", "a", "n", "s", "w", "e", "r", " ", "t", "h", "i", "s", " ",
      "q", "u", "e", "s", "t", "i", "o", "n", " ", "w", "i", "t", "h", "i",
      "n", " ", "t", "h", "e", " ", "s", "t", "e", "p", " ", "l", "i", "m",
      "i", "t", ".">>

\* the canned answer of run_unified_agent (lines 168-171)
UNIFIED_INCONCLUSIVE ==
    <<"I", " ", "w", "a", "s", " ", "n", "o", "t", " ", "a", "b", "l", "e",
      " ", "t", "o", " ", "c", "o", "m", "p", "l", "e", "t", "e", " ", "t",
      "h", "e", " ", "a", "n", "a", "l", "y", "s", "i", "s", " ", "w", "i",
      "t", "h", "i", "n", " ", "t", "h", "e", " ", "s", "t", "e", "p", " ",
      "l", "i", "m", "i", "t", ".">>

ans_blank == <<" ", "\n">>
ans_42    == <<" ", "4", "2", " ">>
ans_no    == <<"n", "o">>

Question     == <<"q">>
sub_question == <<"s", "u", "b">>

BadJson   == [kind |-> "badjson"]
NonObject == [kind |-> "nonobject"]
Action(tag, q, s, a) ==
    [kind |-> "object", action |-> tag, question |-> q, sql |-> s, final_answer |-> a]

AnswerValues == { JAbsent, JNull, JStr(<<>>), JStr(ans_blank), JStr(ans_42), JStr(ans_no) }

\* responses to the SQL sub-agent's instruction
SqlResponses ==
    { BadJson, NonObject }
    \cup { Action(JStr("FINISH"), JAbsent, JAbsent, a) : a \in AnswerValues }
    \cup { Action(JStr("FINISH"), JAbsent, JStr(sql_select_x), JStr(ans_no)) }
    \cup { Action(JStr("CALL_SQL"), JAbsent, s, JAbsent) :
             s \in { JAbsent, JNull, JStr(<<>>), JInt(sql_int) }
                   \cup { JStr(q) : q \in LoopSqls } }
    \cup { Action(JStr("CALL_SQL"), JAbsent, JStr(sql_drop), JStr(ans_no)) }
    \cup { Action(tag, JAbsent, JStr(sql_select_x), JStr(ans_no)) :
             tag \in { JAbsent, JNull, JStr("finish"), JStr("CALL_SQL_AGENT") } }

\* responses to the orchestrator's instruction
UnifiedResponses ==
    { BadJson, NonObject }
    \cup { Action(JStr("FINISH"), JAbsent, JAbsent, a) : a \in AnswerValues }
    \cup { Action(tag, q, JAbsent, JAbsent) :
             tag \in { JStr("CALL_SQL_AGENT"), JStr("CALL_WEB_AGENT") },
             q \in { JAbsent, JNull, JStr(sub_question) } }
    \cup { Action(tag, JStr(sub_question), JAbsent, JStr(ans_no)) :
             tag \in { JAbsent, JNull, JStr("finish"), JStr("CALL_SQL") } }

\* the ways one run of run_sql_agent(question, max_steps=10) ends: a returned
\* answer with its history, or one of the loop's exceptions
\* `history` holds the sql of each entry; the ceiling is that of tools.py line 28
SqlRunOutcomes ==
    { [do |-> "return", final_answer |-> ans_no, history |-> <<sql_select_x>>],
      [do |-> "return", final_answer |-> ans_no, history |-> <<sql_int>>],
      [do |-> "return", final_answer |-> SQL_INCONCLUSIVE,
       history |-> [i \in 1..SqlAgentMaxSteps |-> sql_select_x]],
      [do |-> "return", final_answer |-> SQL_INCONCLUSIVE,
       history |-> [i \in 1..SqlAgentMaxSteps |->
                      IF i = 1 THEN sql_int ELSE sql_select_x]] }
    \cup { [do |-> "raise", exc |-> e] :
             e \in { Err(TransportError), Err(NormalizerError),
                     ErrWith(InvalidJson, 1, {"raw", "clean"}),
                     ErrWith(UnexpectedAction, 2, {"parsed"}) } }

\* the ways one run of the web pipeline ends: an answer with its sources, or
\* an exception of one of its stages
WebRunOutcomes ==
    { [do |-> "return", answer |-> ans_no, sources |-> 1],
      [do |-> "raise", exc |-> Err(WebPipelineError)] }

\* sql_agent.py lines 523-596: format_agent_response(result); `if sql:` is
\* followed by sql.replace (lines 576-578), which a value that is not a str
\* does not have
format_agent_response(o) ==
    IF \E i \in DOMAIN o.history : o.history[i] # <<>> /\ ~is_str(o.history[i])
    THEN [do |-> "raise", exc |-> Err(AttributeError)]
    ELSE [do |-> "return", formatted |-> "Answer, Steps taken"]

\* tools.py lines 28-29: the try block: the run, then the formatting of its result
run_and_format(o) ==
    IF o.do = "return" /\ format_agent_response(o).do = "raise"
    THEN format_agent_response(o)
    ELSE o

\* tools.py lines 27-44: the result of the run, or the exception as a result
call_sql_agent(o) ==
    LET tried == run_and_format(o)
    IN  IF tried.do = "return"
        THEN [success |-> TRUE, answer |-> o.final_answer,
              steps_taken |-> Len(o.history), error |-> JNull]
        ELSE [success |-> FALSE, answer |-> <<>>, steps_taken |-> 0,
              error |-> JStr(tried.exc.msg)]

\* tools.py lines 59-73
call_web_agent(o) ==
    IF o.do = "return"
    THEN [success |-> TRUE, answer |-> o.answer, sources |-> o.sources, error |-> JNull]
    ELSE [success |-> FALSE, answer |-> <<>>, sources |-> 0, error |-> JStr(o.exc.msg)]

\* the results call_sql_agent and call_web_agent can return (tools.py)
SqlAgentResults == { call_sql_agent(o) : o \in SqlRunOutcomes }

WebAgentResults == { call_web_agent(o) : o \in WebRunOutcomes }

-----------------------------------------------------------------------------
(* run_sql_agent *)

\* what normalize_player_name returns: one of two lists of mentions
NormResults == {"players: Tom", "players: Tom, Pat"}

\* Variant of lines 394-411 that goes on without mentions when the normaliser
\* raises.
NormalizeLenient ==
    /\ mode = "sql"
    /\ pc = "normalize"
    /\ \/ /\ name_norm' \in NormResults
       \/ /\ name_norm' = "none"
    /\ pc' = "loop"
    /\ UNCHANGED <<start_idx, chunks, store, pending, rows, store_before>>
    /\ UNCHANGED <<main, conversations, heap, threads, added>>
    /\ UNCHANGED <<arg, ops_done, conns_closed>>
    /\ UNCHANGED <<mode, max_steps, step, history, context, oracle_calls, responses,
                   parsed, sql, gate, conn, conns_opened, db_log, fetched, tool_calls,
                   result, exc>>

\* lines 394-411: name normalisation, then history = []
Normalize ==
    /\ mode = "sql"
    /\ pc = "normalize"
    /\ \/ /\ name_norm' \in NormResults
          /\ pc' = "loop"
          /\ exc' = exc
       \/ /\ exc' = Err(NormalizerError)
          /\ pc' = "fatal"
          /\ name_norm' = name_norm
    /\ UNCHANGED <<start_idx, chunks, store, pending, rows, store_before>>
    /\ UNCHANGED <<main, conversations, heap, threads, added>>
    /\ UNCHANGED <<arg, ops_done, conns_closed>>
    /\ UNCHANGED <<mode, max_steps, step, history, context, oracle_calls, responses,
                   parsed, sql, gate, conn, conns_opened, db_log, fetched, tool_calls,
                   result>>

\* Variant of the loop head that iterates over range(1, max_steps + 2).
SqlOracleCallOffByOne ==
    /\ mode = "sql"
    /\ pc = "loop"
    /\ step < max_steps + 1
    /\ step' = step + 1
    /\ context' = [history |-> history, name_normalization |-> name_norm]
    /\ oracle_calls' = oracle_calls + 1
    /\ \/ /\ parsed' \in SqlResponses
          /\ responses' = Append(responses, parsed')
          /\ pc' = "dispatch"
          /\ exc' = exc
       \/ /\ exc' = Err(TransportError)
          /\ pc' = "fatal"
          /\ UNCHANGED <<parsed, responses>>
    /\ UNCHANGED <<start_idx, chunks, store, pending, rows, store_before>>
    /\ UNCHANGED <<main, conversations, heap, threads, added>>
    /\ UNCHANGED <<arg, ops_done, conns_closed>>
    /\ UNCHANGED <<mode, max_steps, name_norm, history, sql, gate, conn, conns_opened,
                   db_log, fetched, tool_calls, result>>

\* lines 413-433: next value of `step`, build the context, call the oracle
SqlOracleCall ==
    /\ mode = "sql"
    /\ pc = "loop"
    /\ step < max_steps
    /\ step' = step + 1
    /\ context' = [history |-> history, name_normalization |-> name_norm]
    /\ oracle_calls' = oracle_calls + 1
    /\ \/ /\ parsed' \in SqlResponses
          /\ responses' = Append(responses, parsed')
          /\ pc' = "dispatch"
          /\ exc' = exc
       \/ /\ exc' = Err(TransportError)
          /\ pc' = "fatal"
          /\ UNCHANGED <<parsed, responses>>
    /\ UNCHANGED <<start_idx, chunks, store, pending, rows, store_before>>
    /\ UNCHANGED <<main, conversations, heap, threads, added>>
    /\ UNCHANGED <<arg, ops_done, conns_closed>>
    /\ UNCHANGED <<mode, max_steps, name_norm, history, sql, gate, conn, conns_opened,
                   db_log, fetched, tool_calls, result>>

\* Variant of lines 447-457 without the test for an empty answer.
finish_sql_unchecked(p) ==
    LET final_answer == get_default(p, "final_answer", JStr(<<>>))
    IN  IF final_answer = JNull
        THEN [do |-> "raise", exc |-> Err(AttributeError)]
        ELSE [do |-> "return", final_answer |-> strip(final_answer.v)]

\* lines 447-457: FINISH: the trimmed answer, or an error when it is empty
\* (None.strip() raises AttributeError)
finish_sql(p) ==
    LET final_answer == get_default(p, "final_answer", JStr(<<>>))
    IN  IF final_answer = JNull
        THEN [do |-> "raise", exc |-> Err(AttributeError)]
        ELSE IF strip(final_answer.v) = <<>>
        THEN [do |-> "raise", exc |-> ErrWith(MissingAnswer, 0, {"parsed"})]
        ELSE [do |-> "return", final_answer |-> strip(final_answer.v)]

\* lines 459-462: CALL_SQL: the statement to execute, or an error when it is missing
call_sql(p) ==
    LET q == get_default(p, "sql", JStr(<<>>))
    IN  IF ~truthy(q)
        THEN [do |-> "raise", exc |-> ErrWith(MissingSql, 0, {"parsed"})]
        ELSE [do |-> "execute", sql |-> q.v]

\* lines 435-462, 509: what step n does with the oracle response p
sql_agent_step(p, n) ==
    IF p.kind = "badjson"
    THEN [do |-> "raise", exc |-> ErrWith(InvalidJson, n, {"raw", "clean"})]
    ELSE IF p.kind = "nonobject"
    THEN [do |-> "raise", exc |-> Err(AttributeError)]
    ELSE IF get(p, "action") = JStr("FINISH") THEN finish_sql(p)
    ELSE IF get(p, "action") = JStr("CALL_SQL") THEN call_sql(p)
    ELSE [do |-> "raise", exc |-> ErrWith(UnexpectedAction, n, {"parsed"})]

\* lines 435-470, 509: parse the response and act on its action tag, up to the
\* call of execute_sql
SqlDispatch ==
    /\ mode = "sql"
    /\ pc = "dispatch"
    /\ LET o == sql_agent_step(parsed, step)
       IN  IF o.do = "raise"
           THEN /\ exc' = o.exc
                /\ pc' = "fatal"
                /\ UNCHANGED <<sql, gate, conn, fetched, result>>
           ELSE IF o.do = "return"
           THEN /\ result' = [final_answer |-> o.final_answer,
                              history |-> history,
                              name_normalization |-> name_norm]
                /\ pc' = "done"
                /\ UNCHANGED <<sql, gate, conn, fetched, exc>>
           ELSE /\ sql' = o.sql
                /\ gate' = "none"
                /\ conn' = "none"
                /\ fetched' = "none"
                /\ pc' = "validate"
                /\ UNCHANGED <<exc, result>>
    /\ UNCHANGED <<start_idx, chunks, store, pending, rows, store_before>>
    /\ UNCHANGED <<main, conversations, heap, threads, added>>
    /\ UNCHANGED <<arg, ops_done, conns_closed>>
    /\ UNCHANGED <<mode, max_steps, name_norm, step, history, context, oracle_calls,
                   responses, parsed, conns_opened, db_log, tool_calls>>

\* Variant of lines 481-491 that inserts the entry at the front of the history.
SqlPrependObservation ==
    /\ mode = "sql"
    /\ pc = "returned"
    /\ history' = <<[step |-> step, action |-> "CALL_SQL", sql |-> sql,
                     observation |-> [row_count |-> IF fetched = "rows" THEN 1 ELSE 0]]>>
                  \o history
    /\ pc' = "loop"
    /\ UNCHANGED <<start_idx, chunks, store, pending, rows, store_before>>
    /\ UNCHANGED <<main, conversations, heap, threads, added>>
    /\ UNCHANGED <<arg, ops_done, conns_closed>>
    /\ UNCHANGED <<mode, max_steps, name_norm, step, context, oracle_calls, responses,
                   parsed, sql, gate, conn, conns_opened, db_log, fetched, exc,
                   tool_calls, result>>

\* lines 472-491, 507: execute_sql returned: append the observation, continue
SqlAppendObservation ==
    /\ mode = "sql"
    /\ pc = "returned"
    /\ history' = Append(history,
                         [step |-> step, action |-> "CALL_SQL", sql |-> sql,
                          observation |-> [row_count |-> IF fetched = "rows" THEN 1 ELSE 0]])
    /\ pc' = "loop"
    /\ UNCHANGED <<start_idx, chunks, store, pending, rows, store_before>>
    /\ UNCHANGED <<main, conversations, heap, threads, added>>
    /\ UNCHANGED <<arg, ops_done, conns_closed>>
    /\ UNCHANGED <<mode, max_steps, name_norm, step, context, oracle_calls, responses,
                   parsed, sql, gate, conn, conns_opened, db_log, fetched, exc,
                   tool_calls, result>>

\* Variant of lines 492-507 that swallows the exception without recording it.
SqlSwallowError ==
    /\ mode = "sql"
    /\ pc = "raised"
    /\ exc' = NoExc
    /\ pc' = "loop"
    /\ UNCHANGED <<start_idx, chunks, store, pending, rows, store_before>>
    /\ UNCHANGED <<main, conversations, heap, threads, added>>
    /\ UNCHANGED <<arg, ops_done, conns_closed>>
    /\ UNCHANGED <<mode, max_steps, name_norm, step, history, context, oracle_calls,
                   responses, parsed, sql, gate, conn, conns_opened, db_log, fetched,
                   tool_calls, result>>

\* lines 492-507: execute_sql raised: append the error, continue
SqlAppendError ==
    /\ mode = "sql"
    /\ pc = "raised"
    /\ history' = Append(history,
                         [step |-> step, action |-> "CALL_SQL", sql |-> sql,
                          error |-> [msg |-> exc.msg, kw |-> exc.kw]])
    /\ exc' = NoExc
    /\ pc' = "loop"
    /\ UNCHANGED <<start_idx, chunks, store, pending, rows, store_before>>
    /\ UNCHANGED <<main, conversations, heap, threads, added>>
    /\ UNCHANGED <<arg, ops_done, conns_closed>>
    /\ UNCHANGED <<mode, max_steps, name_norm, step, context, oracle_calls, responses,
                   parsed, sql, gate, conn, conns_opened, db_log, fetched, tool_calls,
                   result>>

\* lines 511-516: the range is exhausted: the canned answer
SqlExhausted ==
    /\ mode = "sql"
    /\ pc = "loop"
    /\ step >= max_steps
    /\ result' = [final_answer |-> SQL_INCONCLUSIVE,
                  history |-> history,
                  name_normalization |-> name_norm]
    /\ pc' = "done"
    /\ UNCHANGED <<start_idx, chunks, store, pending, rows, store_before>>
    /\ UNCHANGED <<main, conversations, heap, threads, added>>
    /\ UNCHANGED <<arg, ops_done, conns_closed>>
    /\ UNCHANGED <<mode, max_steps, name_norm, step, history, context, oracle_calls,
                   responses, parsed, sql, gate, conn, conns_opened, db_log, fetched,
                   exc, tool_calls>>

run_sql_agent ==
    \/ Normalize
    \/ SqlOracleCall
    \/ SqlDispatch
    \/ execute_sql
    \/ SqlAppendObservation
    \/ SqlAppendError
    \/ SqlExhausted

-----------------------------------------------------------------------------
(* run_unified_agent *)

\* lines 90-101: next value of `step`, build the context, call the oracle
UniOracleCall ==
    /\ mode = "unified"
    /\ pc = "loop"
    /\ step < max_steps
    /\ step' = step + 1
    /\ context' = [history |-> history, name_normalization |-> name_norm]
    /\ oracle_calls' = oracle_calls + 1
    /\ \/ /\ parsed' \in UnifiedResponses
          /\ responses' = Append(responses, parsed')
          /\ pc' = "dispatch"
          /\ exc' = exc
       \/ /\ exc' = Err(TransportError)
          /\ pc' = "fatal"
          /\ UNCHANGED <<parsed, responses>>
    /\ UNCHANGED <<start_idx, chunks, store, pending, rows, store_before>>
    /\ UNCHANGED <<main, conversations, heap, threads, added>>
    /\ UNCHANGED <<arg, ops_done, conns_closed>>
    /\ UNCHANGED <<mode, max_steps, name_norm, history, sql, gate, conn, conns_opened,
                   db_log, fetched, tool_calls, result>>

\* lines 116-123: FINISH: the trimmed answer (None.strip() raises AttributeError)
finish_unified(p) ==
    LET final_answer == get_default(p, "final_answer", JStr(<<>>))
    IN  IF final_answer = JNull
        THEN [do |-> "raise", exc |-> Err(AttributeError)]
        ELSE [do |-> "return", final_answer |-> strip(final_answer.v)]

\* lines 126-130, 146-150: the question for the sub-agent, the run's question
\* when the field is absent; sub_question[:80] raises TypeError on None
call_agent(p, tool) ==
    LET q == get_default(p, "question", JStr(Question))
    IN  IF q = JNull
        THEN [do |-> "raise", exc |-> Err(TypeError)]
        ELSE [do |-> tool, question |-> q.v]

\* Variant of lines 102-165 that treats an unknown action tag as CALL_WEB_AGENT.
unified_agent_step_lenient(p, n) ==
    IF p.kind = "badjson"
    THEN [do |-> "raise", exc |-> ErrWith(InvalidJson, n, {"raw", "clean"})]
    ELSE IF p.kind = "nonobject"
    THEN [do |-> "raise", exc |-> Err(AttributeError)]
    ELSE IF get(p, "action") = JStr("FINISH") THEN finish_unified(p)
    ELSE IF get(p, "action") = JStr("CALL_SQL_AGENT") THEN call_agent(p, "call_sql_agent")
    ELSE call_agent(p, "call_web_agent")

\* lines 102-130, 145-150, 165: what step n does with the oracle response p
unified_agent_step(p, n) ==
    IF p.kind = "badjson"
    THEN [do |-> "raise", exc |-> ErrWith(InvalidJson, n, {"raw", "clean"})]
    ELSE IF p.kind = "nonobject"
    THEN [do |-> "raise", exc |-> Err(AttributeError)]
    ELSE IF get(p, "action") = JStr("FINISH") THEN finish_unified(p)
    ELSE IF get(p, "action") = JStr("CALL_SQL_AGENT") THEN call_agent(p, "call_sql_agent")
    ELSE IF get(p, "action") = JStr("CALL_WEB_AGENT") THEN call_agent(p, "call_web_agent")
    ELSE [do |-> "raise", exc |-> ErrWith(UnexpectedAction, n, {"parsed"})]

\* lines 102-131, 145-151, 165: parse the response and act on its action tag, up
\* to the call of the tool
UniDispatch ==
    /\ mode = "unified"
    /\ pc = "dispatch"
    /\ LET o == unified_agent_step(parsed, step)
       IN  IF o.do = "raise"
           THEN /\ exc' = o.exc
                /\ pc' = "fatal"
                /\ result' = result
           ELSE IF o.do = "return"
           THEN /\ result' = [final_answer |-> o.final_answer, history |-> history]
                /\ pc' = "done"
                /\ exc' = exc
           ELSE /\ pc' = o.do
                /\ UNCHANGED <<exc, result>>
    /\ UNCHANGED <<start_idx, chunks, store, pending, rows, store_before>>
    /\ UNCHANGED <<main, conversations, heap, threads, added>>
    /\ UNCHANGED <<arg, ops_done, conns_closed>>
    /\ UNCHANGED <<mode, max_steps, name_norm, step, history, context, oracle_calls,
                   responses, parsed, sql, gate, conn, conns_opened, db_log, fetched,
                   tool_calls>>

\* Variant of tools.py lines 27-44 without the except clause: a failure inside
\* the sub-agent run propagates through the orchestrator.
CallSqlAgentPropagating ==
    /\ mode = "unified"
    /\ pc = "call_sql_agent"
    /\ LET q == call_agent(parsed, "call_sql_agent").question
       IN  \E o \in SqlRunOutcomes :
             /\ tool_calls' = Append(tool_calls,
                                     [tool |-> "sql", question |-> q, outcome |-> o])
             /\ IF run_and_format(o).do = "return"
                THEN /\ history' = Append(history,
                                          [step |-> step, action |-> "CALL_SQL_AGENT",
                                           question |-> q, result |-> call_sql_agent(o)])
                     /\ pc' = "loop"
                     /\ exc' = exc
                ELSE /\ exc' = run_and_format(o).exc
                     /\ pc' = "fatal"
                     /\ history' = history
    /\ UNCHANGED <<start_idx, chunks, store, pending, rows, store_before>>
    /\ UNCHANGED <<main, conversations, heap, threads, added>>
    /\ UNCHANGED <<arg, ops_done, conns_closed>>
    /\ UNCHANGED <<mode, max_steps, name_norm, step, context, oracle_calls, responses,
                   parsed, sql, gate, conn, conns_opened, db_log, fetched, result>>

\* Variant of lines 132-143 that calls the sub-agent again, within the same
\* step, when its result is a failure.
CallSqlAgentRetrying ==
    /\ mode = "unified"
    /\ pc = "call_sql_agent"
    /\ LET q == call_agent(parsed, "call_sql_agent").question
       IN  \E o \in SqlRunOutcomes :
             /\ tool_calls' = Append(tool_calls,
                                     [tool |-> "sql", question |-> q, outcome |-> o])
             /\ IF call_sql_agent(o).success
                THEN /\ history' = Append(history,
                                          [step |-> step, action |-> "CALL_SQL_AGENT",
                                           question |-> q, result |-> call_sql_agent(o)])
                     /\ pc' = "loop"
                ELSE /\ history' = history
                     /\ pc' = pc
    /\ UNCHANGED <<start_idx, chunks, store, pending, rows, store_before>>
    /\ UNCHANGED <<main, conversations, heap, threads, added>>
    /\ UNCHANGED <<arg, ops_done, conns_closed>>
    /\ UNCHANGED <<mode, max_steps, name_norm, step, context, oracle_calls, responses,
                   parsed, sql, gate, conn, conns_opened, db_log, fetched, exc, result>>

\* lines 132-143: the sub-agent runs inside call_sql_agent(sub_question), which
\* returns a result whatever the run did; append the result, continue
CallSqlAgent ==
    /\ mode = "unified"
    /\ pc = "call_sql_agent"
    /\ LET q == call_agent(parsed, "call_sql_agent").question
       IN  \E o \in SqlRunOutcomes :
             /\ tool_calls' = Append(tool_calls,
                                     [tool |-> "sql", question |-> q, outcome |-> o])
             /\ history' = Append(history,
                                  [step |-> step, action |-> "CALL_SQL_AGENT",
                                   question |-> q, result |-> call_sql_agent(o)])
    /\ pc' = "loop"
    /\ UNCHANGED <<start_idx, chunks, store, pending, rows, store_before>>
    /\ UNCHANGED <<main, conversations, heap, threads, added>>
    /\ UNCHANGED <<arg, ops_done, conns_closed>>
    /\ UNCHANGED <<mode, max_steps, name_norm, step, context, oracle_calls, responses,
                   parsed, sql, gate, conn, conns_opened, db_log, fetched, exc, result>>

\* Variant of lines 152-163 that rebinds the history to a list holding the new
\* entry only.
CallWebAgentOverwriting ==
    /\ mode = "unified"
    /\ pc = "call_web_agent"
    /\ LET q == call_agent(parsed, "call_web_agent").question
       IN  \E o \in WebRunOutcomes :
             /\ tool_calls' = Append(tool_calls,
                                     [tool |-> "web", question |-> q, outcome |-> o])
             /\ history' = <<[step |-> step, action |-> "CALL_WEB_AGENT",
                              question |-> q, result |-> call_web_agent(o)]>>
    /\ pc' = "loop"
    /\ UNCHANGED <<start_idx, chunks, store, pending, rows, store_before>>
    /\ UNCHANGED <<main, conversations, heap, threads, added>>
    /\ UNCHANGED <<arg, ops_done, conns_closed>>
    /\ UNCHANGED <<mode, max_steps, name_norm, step, context, oracle_calls, responses,
                   parsed, sql, gate, conn, conns_opened, db_log, fetched, exc, result>>

\* lines 152-163: the same for call_web_agent(sub_question)
CallWebAgent ==
    /\ mode = "unified"
    /\ pc = "call_web_agent"
    /\ LET q == call_agent(parsed, "call_web_agent").question
       IN  \E o \in WebRunOutcomes :
             /\ tool_calls' = Append(tool_calls,
                                     [tool |-> "web", question |-> q, outcome |-> o])
             /\ history' = Append(history,
                                  [step |-> step, action |-> "CALL_WEB_AGENT",
                                   question |-> q, result |-> call_web_agent(o)])
    /\ pc' = "loop"
    /\ UNCHANGED <<start_idx, chunks, store, pending, rows, store_before>>
    /\ UNCHANGED <<main, conversations, heap, threads, added>>
    /\ UNCHANGED <<arg, ops_done, conns_closed>>
    /\ UNCHANGED <<mode, max_steps, name_norm, step, context, oracle_calls, responses,
                   parsed, sql, gate, conn, conns_opened, db_log, fetched, exc, result>>

\* lines 167-171: the range is exhausted: the canned answer
UniExhausted ==
    /\ mode = "unified"
    /\ pc = "loop"
    /\ step >= max_steps
    /\ result' = [final_answer |-> UNIFIED_INCONCLUSIVE, history |-> history]
    /\ pc' = "done"
    /\ UNCHANGED <<start_idx, chunks, store, pending, rows, store_before>>
    /\ UNCHANGED <<main, conversations, heap, threads, added>>
    /\ UNCHANGED <<arg, ops_done, conns_closed>>
    /\ UNCHANGED <<mode, max_steps, name_norm, step, history, context, oracle_calls,
                   responses, parsed, sql, gate, conn, conns_opened, db_log, fetched,
                   exc, tool_calls>>

run_unified_agent ==
    \/ UniOracleCall
    \/ UniDispatch
    \/ CallSqlAgent
    \/ CallWebAgent
    \/ UniExhausted

-----------------------------------------------------------------------------
(* One run of either loop, for every step ceiling up to MaxSteps *)

Init ==
    /\ mode \in {"sql", "unified"}
    /\ max_steps \in 0..MaxSteps
    /\ name_norm = "unset"
    /\ pc = IF mode = "sql" THEN "normalize" ELSE "loop"
    /\ step = 0
    /\ history = <<>>
    /\ context = [history |-> <<>>, name_normalization |-> "unset"]
    /\ oracle_calls = 0
    /\ responses = <<>>
    /\ parsed = NoResponse
    /\ sql = <<>>
    /\ gate = "none"
    /\ conn = "none"
    /\ conns_opened = 0
    /\ db_log = <<>>
    /\ fetched = "none"
    /\ exc = NoExc
    /\ tool_calls = <<>>
    /\ result = NoResult
    /\ arg = NoArg
    /\ ops_done = 0
    /\ conns_closed = 0
    /\ start_idx = 0
    /\ chunks = <<>>
    /\ store = {}
    /\ pending = {}
    /\ rows = <<>>
    /\ store_before = {}
    /\ main = NoMain
    /\ conversations = <<>>
    /\ heap = <<>>
    /\ threads = <<>>
    /\ added = <<>>

Next == run_sql_agent \/ run_unified_agent

Spec == Init /\ [][Next]_vars

-----------------------------------------------------------------------------
(* The gate and the executor on their own: execute_sql(sql) for any input  *)

InitGate ==
    /\ mode = "exec"
    /\ sql \in GateInputs
    /\ pc = "validate"
    /\ max_steps = 0
    /\ name_norm = "unset"
    /\ step = 0
    /\ history = <<>>
    /\ context = [history |-> <<>>, name_normalization |-> "unset"]
    /\ oracle_calls = 0
    /\ responses = <<>>
    /\ parsed = NoResponse
    /\ gate = "none"
    /\ conn = "none"
    /\ conns_opened = 0
    /\ db_log = <<>>
    /\ fetched = "none"
    /\ exc = NoExc
    /\ tool_calls = <<>>
    /\ result = NoResult
    /\ arg = NoArg
    /\ ops_done = 0
    /\ conns_closed = 0
    /\ start_idx = 0
    /\ chunks = <<>>
    /\ store = {}
    /\ pending = {}
    /\ rows = <<>>
    /\ store_before = {}
    /\ main = NoMain
    /\ conversations = <<>>
    /\ heap = <<>>
    /\ threads = <<>>
    /\ added = <<>>

NextGate == Validate \/ Connect \/ Execute \/ Close

SpecGate == InitGate /\ [][NextGate]_vars

-----------------------------------------------------------------------------
(* normalize_player_name: one oracle call, parsed into NameMention records  *)

\* more JSON values: a number, and a list (unhashable in Python)
JNum     == [t |-> "num"]
JList(v) == [t |-> "list", v |-> v]

\* str(x) for the values that are not strings
str_of(x) ==
    IF x.t = "null" THEN <<"N", "o", "n", "e">>
    ELSE IF x.t = "num" THEN <<"7">>
    ELSE <<"[", "]">>

name_span  == <<"T", "B">>
name_canon == <<"T", "o", "m">>
why        == <<"w", "h", "y">>

\* values of the "confidence" field
ConfidenceValues ==
    { JStr("high"), JStr("medium"), JStr("low"), JStr("HIGH"), JStr("certain"),
      JAbsent, JNull, JNum, JList(<<>>) }

\* a JSON object with the four fields of a mention
Mention(o, n, c, r) ==
    [kind |-> "object", original |-> o, normalized |-> n, confidence |-> c, reason |-> r]

\* an element of the "players" list that is not an object
NonObjectElement == [kind |-> "nonobject"]

\* the elements a "players" list holds
MentionObjects ==
    { Mention(JStr(name_span), JStr(name_canon), c, JStr(why)) : c \in ConfidenceValues }
    \cup { Mention(JAbsent, JNull, JStr("low"), JAbsent),
           Mention(JNum, JNum, JStr("medium"), JNull),
           Mention(JStr(name_span), JNull, JStr("high"), JNum) }

RECURSIVE MentionLists(_)
MentionLists(n) ==
    IF n = 0 THEN { <<>> }
    ELSE LET shorter == MentionLists(n - 1)
         IN  shorter \cup { Append(l, m) : l \in shorter,
                                           m \in MentionObjects \cup {NonObjectElement} }

\* a JSON object as the normaliser reads it: its "players" field and the four
\* fields of the legacy shape
NormObject(players, m) ==
    [kind |-> "object", players |-> players, original |-> m.original,
     normalized |-> m.normalized, confidence |-> m.confidence, reason |-> m.reason]

NoFields == Mention(JAbsent, JAbsent, JAbsent, JAbsent)

\* what json.loads(extract_json_object(raw)) gives the normaliser
NormResponses ==
    { BadJson, NonObject }
    \cup { NormObject(JList(l), NoFields) : l \in MentionLists(MaxMentions) }
    \cup { NormObject(p, m) : p \in { JAbsent, JNull, JStr(name_span) }, m \in MentionObjects }
    \cup { NormObject(JList(<<m>>), m) : m \in MentionObjects }
    \cup { NormObject(JAbsent, NoFields) }

NormInvalidJson   == "Name normalizer did not return valid JSON"
NormBadStructure  == "Name normalizer returned unexpected structure"
Unhashable        == "TypeError: unhashable type"

\* lines 135-137: is the confidence outside {"high", "medium", "low"}; the
\* membership test hashes the value
ConfidenceEnum == { JStr("high"), JStr("medium"), JStr("low") }

\* lines 129-143: one record with the four fields, or the exception of the
\* membership test
_coerce_player(obj) ==
    LET original   == get(obj, "original")
        normalized == get(obj, "normalized")
        confidence == get_default(obj, "confidence", JStr("low"))
        reason     == get_default(obj, "reason", JStr(<<>>))
    IN  IF obj.kind # "object"
        THEN [do |-> "raise", exc |-> Err(AttributeError)]
        ELSE IF confidence.t = "list"
        THEN [do |-> "raise", exc |-> Err(Unhashable)]
        ELSE [do |-> "return",
              player |->
                [original   |-> IF original.t \in {"str", "null"} THEN original
                                ELSE JStr(str_of(original)),
                 normalized |-> IF normalized.t \in {"str", "null"} THEN normalized
                                ELSE JStr(str_of(normalized)),
                 confidence |-> IF confidence \in ConfidenceEnum THEN confidence.v
                                ELSE "low",
                 reason     |-> IF reason.t = "str" THEN reason
                                ELSE JStr(str_of(reason))]]

\* lines 145-159: the list under "players" when it is a non-empty list, else
\* the object itself as one mention, else (not an object) an error
normalize_player_name(data) ==
    IF data.kind = "badjson"
    THEN [do |-> "raise", exc |-> ErrWith(NormInvalidJson, 0, {"raw", "clean"})]
    ELSE IF data.kind = "object" /\ data.players.t = "list" /\ data.players.v # <<>>
    THEN LET coerced == [i \in DOMAIN data.players.v |-> _coerce_player(data.players.v[i])]
             failed  == {i \in DOMAIN coerced : coerced[i].do = "raise"}
         IN  IF failed # {}
             THEN [do |-> "raise",
                   exc |-> coerced[CHOOSE i \in failed : \A j \in failed : i <= j].exc]
             ELSE [do |-> "return",
                   players |-> [i \in DOMAIN coerced |-> coerced[i].player]]
    ELSE IF data.kind = "object"
    THEN LET one == _coerce_player(data)
         IN  IF one.do = "raise" THEN one
             ELSE [do |-> "return", players |-> <<one.player>>]
    ELSE [do |-> "raise", exc |-> ErrWith(NormBadStructure, 0, {"parsed", "raw"})]

\* lines 111-159: call the oracle, extract, parse, coerce
NormalizePlayerName ==
    /\ mode = "normalize"
    /\ pc = "call"
    /\ \/ LET o == normalize_player_name(arg)
          IN  IF o.do = "raise"
              THEN /\ exc' = o.exc
                   /\ pc' = "fatal"
                   /\ result' = result
              ELSE /\ result' = [players |-> o.players]
                   /\ pc' = "done"
                   /\ exc' = exc
       \/ /\ exc' = Err(TransportError)
          /\ pc' = "fatal"
          /\ result' = result
    /\ UNCHANGED <<start_idx, chunks, store, pending, rows, store_before>>
    /\ UNCHANGED <<main, conversations, heap, threads, added>>
    /\ UNCHANGED <<arg, ops_done, conns_closed>>
    /\ UNCHANGED <<mode, max_steps, name_norm, step, history, context, oracle_calls,
                   responses, parsed, sql, gate, conn, conns_opened, db_log, fetched,
                   tool_calls>>

-----------------------------------------------------------------------------
(* process_query: the query refiner of the web pipeline *)

refined_primary    == [role |-> "primary", query |-> <<"q", "1">>]
refined_supporting == [role |-> "supporting", query |-> <<"q", "2">>]

\* what json.loads(extract_json_object(response)) gives the refiner
RefineResponses ==
    { BadJson, NonObject }
    \cup { [kind |-> "object", queries |-> q] :
             q \in { JAbsent, JNull, JList(<<>>), JList(<<refined_primary>>),
                     JList(<<refined_primary, refined_supporting>>) } }

RefineInvalidJson == "LLM did not return valid JSON"

\* web_agent_utils.py lines 83-89: parse, then parsed.get("queries", [])
process_query(parsed_response) ==
    IF parsed_response.kind = "badjson"
    THEN [do |-> "raise", exc |-> ErrWith(RefineInvalidJson, 0, {"clean"})]
    ELSE IF parsed_response.kind # "object"
    THEN [do |-> "raise", exc |-> Err(AttributeError)]
    ELSE [do |-> "return",
          queries |-> get_default(parsed_response, "queries", JList(<<>>))]

\* web_agent_utils.py lines 76-89
ProcessQuery ==
    /\ mode = "refine"
    /\ pc = "call"
    /\ \/ LET o == process_query(arg)
          IN  IF o.do = "raise"
              THEN /\ exc' = o.exc
                   /\ pc' = "fatal"
                   /\ result' = result
              ELSE /\ result' = [queries |-> o.queries]
                   /\ pc' = "done"
                   /\ exc' = exc
       \/ /\ exc' = Err(TransportError)
          /\ pc' = "fatal"
          /\ result' = result
    /\ UNCHANGED <<start_idx, chunks, store, pending, rows, store_before>>
    /\ UNCHANGED <<main, conversations, heap, threads, added>>
    /\ UNCHANGED <<arg, ops_done, conns_closed>>
    /\ UNCHANGED <<mode, max_steps, name_norm, step, history, context, oracle_calls,
                   responses, parsed, sql, gate, conn, conns_opened, db_log, fetched,
                   tool_calls>>

-----------------------------------------------------------------------------
(* extract_json_object: best-effort JSON-object substring of oracle text     *)

\* str.endswith(p)
endswith(s, p) == Len(p) <= Len(s) /\ SubSeq(s, Len(s) - Len(p) + 1, Len(s)) = p

\* the character U+0060, which a TLA+ string cannot hold, as one element of a text
backtick  == "U+0060"
fence     == <<backtick, backtick, backtick>>
open_br   == <<"{">>
close_br  == <<"}">>
lang_json == <<"j", "s", "o", "n">>

\* the characters of s at positions a..b that exist
slice(s, a, b) ==
    IF a > b \/ a > Len(s) THEN <<>>
    ELSE SubSeq(s, a, IF b > Len(s) THEN Len(s) ELSE b)

\* the positions at which ``` begins
FenceStarts(s) == {i \in 1..Len(s) : slice(s, i, i + 2) = fence}

\* where group 1 begins for a match that starts at the fence at i: after the
\* fence and after the label json (any case) when it follows at once
group_start(s, i) ==
    IF lower(slice(s, i + 3, i + 6)) = lang_json THEN i + 7 ELSE i + 3

\* the closing fences of a match that starts at i
Closings(s, i) == {j \in FenceStarts(s) : j >= group_start(s, i)}

\* re.search(r"```(?:json)?(.*?)```", s, DOTALL | IGNORECASE): the leftmost
\* fence that has a closing fence, with the shortest interior; group(1)
fence_match(s) ==
    LET starts == {i \in FenceStarts(s) : Closings(s, i) # {}}
    IN  IF starts = {} THEN [found |-> FALSE, group |-> <<>>]
        ELSE LET i == CHOOSE m \in starts : \A n \in starts : m <= n
                 j == CHOOSE m \in Closings(s, i) : \A n \in Closings(s, i) : m <= n
             IN  [found |-> TRUE, group |-> slice(s, group_start(s, i), j - 1)]

\* s.find(c) and s.rfind(c) for a character c; 0 stands for -1
find(s, c) ==
    IF \E i \in 1..Len(s) : s[i] = c
    THEN CHOOSE i \in 1..Len(s) : s[i] = c /\ \A j \in 1..(i - 1) : s[j] # c
    ELSE 0

rfind(s, c) ==
    IF \E i \in 1..Len(s) : s[i] = c
    THEN CHOOSE i \in 1..Len(s) : s[i] = c /\ \A j \in (i + 1)..Len(s) : s[j] # c
    ELSE 0

\* Variant of lines 29-32 whose span stops before the last "}": s[first:last].
extract_json_object_open_span(raw) ==
    LET s     == strip(raw)
        m     == fence_match(s)
        inner == strip(m.group)
        first == find(s, "{")
        last  == rfind(s, "}")
    IN  IF startswith(s, open_br) /\ endswith(s, close_br) THEN s
        ELSE IF m.found /\ startswith(inner, open_br) /\ endswith(inner, close_br)
        THEN inner
        ELSE IF first # 0 /\ last # 0 /\ first < last
        THEN strip(SubSeq(s, first, last - 1))
        ELSE s

\* llm_parsing.py lines 3-35 (sql_agent.py lines 50-82 is the same text)
extract_json_object(raw) ==
    LET s     == strip(raw)
        m     == fence_match(s)
        inner == strip(m.group)
        first == find(s, "{")
        last  == rfind(s, "}")
    IN  IF startswith(s, open_br) /\ endswith(s, close_br) THEN s
        ELSE IF m.found /\ startswith(inner, open_br) /\ endswith(inner, close_br)
        THEN inner
        ELSE IF first # 0 /\ last # 0 /\ first < last
        THEN strip(SubSeq(s, first, last))
        ELSE s

\* the four texts the description of the extractor gives, and a text with two
\* fenced blocks of which the second holds the object
text_object   == <<"{", "\"", "a", "\"", ":", "1", "}">>
text_fenced   == <<backtick, backtick, backtick, "j", "s", "o", "n", "\n", "{", "\"", "a", "\"", ":", "1", "}", "\n", backtick, backtick, backtick>>
text_prose    == <<"n", "o", "i", "s", "e", " ", "{", "\"", "a", "\"", ":", "1", "}", " ", "t", "r", "a", "i", "l", "i", "n", "g">>
text_plain    == <<"n", "o", " ", "b", "r", "a", "c", "e", "s">>
text_two_blocks ==
    <<backtick, backtick, backtick, "x", "{", backtick, backtick, backtick, "\n", backtick, backtick, backtick, "j", "s", "o", "n", "\n", "{", "\"", "a", "\"", ":", "1", "}", "\n", backtick, backtick, backtick>>

\* the pieces the other texts are built of
ExtractTokens ==
    { open_br, close_br, fence, lang_json, <<"J", "s", "o", "n">>,
      <<" ">>, <<"\n">>, <<"x">> }

RECURSIVE TokenTexts(_)
TokenTexts(n) ==
    IF n = 0 THEN { <<>> }
    ELSE LET shorter == TokenTexts(n - 1)
         IN  shorter \cup { t \o k : t \in shorter, k \in ExtractTokens }

\* the oracle texts extract_json_object is called on
ExtractInputs ==
    TokenTexts(MaxToks)
    \cup { text_object, text_fenced, text_prose, text_plain, text_two_blocks }

ExtractJsonObject ==
    /\ mode = "extract"
    /\ pc = "call"
    /\ result' = [text |-> extract_json_object(arg.text)]
    /\ pc' = "done"
    /\ UNCHANGED <<start_idx, chunks, store, pending, rows, store_before>>
    /\ UNCHANGED <<main, conversations, heap, threads, added>>
    /\ UNCHANGED <<arg, ops_done, conns_closed>>
    /\ UNCHANGED <<mode, max_steps, name_norm, step, history, context, oracle_calls,
                   responses, parsed, sql, gate, conn, conns_opened, db_log, fetched,
                   exc, tool_calls>>

-----------------------------------------------------------------------------

(* search_web: the hits of every refined query, without duplicates *)

\* a hit as ddgs.text returns it
Hit(u, t, b) == [href |-> u, title |-> t, body |-> b]

\* the hits a search may return: they share the url; two differ in the title,
\* two in the snippet
Hits ==
    { Hit("u1", "t1", "b1"), Hit("u1", "t2", "b1"), Hit("u1", "t1", "b2") }

RECURSIVE SeqsUpTo(_, _)
SeqsUpTo(S, n) ==
    IF n = 0 THEN { <<>> }
    ELSE LET shorter == SeqsUpTo(S, n - 1)
         IN  shorter \cup { Append(q, x) : q \in shorter, x \in S }

\* list(ddgs.text(r["query"], max_results=5)) for each refined query, in order
SearchResults == SeqsUpTo(SeqsUpTo(Hits, MaxHits), MaxQueries)

SearchError == "search failed"

\* lines 92-97: ddgs_results, the hits of all queries in query order
RECURSIVE ddgs_results(_)
ddgs_results(lists) ==
    IF lists = <<>> THEN <<>> ELSE Head(lists) \o ddgs_results(Tail(lists))

\* Variant of lines 98-101 that takes two hits of one url to be duplicates.
RECURSIVE remove_duplicates_by_url(_, _)
remove_duplicates_by_url(results, kept) ==
    IF results = <<>> THEN kept
    ELSE remove_duplicates_by_url(Tail(results),
            IF \E i \in 1..Len(kept) : kept[i].href = Head(results).href
            THEN kept ELSE Append(kept, Head(results)))

\* lines 98-101: `if result not in remove_duplicates_results: append`
RECURSIVE remove_duplicates_results(_, _)
remove_duplicates_results(results, kept) ==
    IF results = <<>> THEN kept
    ELSE remove_duplicates_results(Tail(results),
            IF \E i \in 1..Len(kept) : kept[i] = Head(results)
            THEN kept ELSE Append(kept, Head(results)))

\* lines 91-102
search_web(lists) == remove_duplicates_results(ddgs_results(lists), <<>>)

SearchWeb ==
    /\ mode = "search"
    /\ pc = "call"
    /\ \/ /\ result' = [hits |-> search_web(arg.lists)]
          /\ pc' = "done"
          /\ exc' = exc
       \/ /\ arg.lists # <<>>
          /\ exc' = Err(SearchError)
          /\ pc' = "fatal"
          /\ result' = result
    /\ UNCHANGED <<start_idx, chunks, store, pending, rows, store_before>>
    /\ UNCHANGED <<main, conversations, heap, threads, added>>
    /\ UNCHANGED <<arg, ops_done, conns_closed>>
    /\ UNCHANGED <<mode, max_steps, name_norm, step, history, context, oracle_calls,
                   responses, parsed, sql, gate, conn, conns_opened, db_log, fetched,
                   tool_calls>>

-----------------------------------------------------------------------------

(* call_llm_messages: post the messages, read the text out of the envelope *)

JObj(v)  == [t |-> "obj", v |-> v]

UnexpectedFormat == "Unexpected LLM response format"

\* the parts of resp.json() the client reads: data["choices"][0]["message"]["content"]
Message(content)  == JObj([content |-> content])
Choice(message)   == JObj([message |-> message])
Envelope(choices) == [choices |-> choices]

Contents == { JAbsent, JNull, JStr(<<>>), JStr(ans_blank), JStr(ans_42) }
Messages == { JAbsent, JNull } \cup { Message(c) : c \in Contents }
ChoiceValues == { JNull } \cup { Choice(m) : m \in Messages }

\* the envelopes a 2xx response may carry
Envelopes ==
    { Envelope(c) : c \in { JAbsent, JNull, JList(<<>>) } }
    \cup { Envelope(JList(<<c>>)) : c \in ChoiceValues }
    \cup { Envelope(JList(<<Choice(Message(JStr(ans_42))), c>>)) : c \in ChoiceValues }

\* the exception of line 74, whose message is the prefix and str(data)
RuntimeError(data) == ErrWith(UnexpectedFormat, 0, {data})

Return(text) == [do |-> "return", text |-> text]
Raise(e)     == [do |-> "raise", exc |-> e]

\* lines 68-74: KeyError and IndexError become the RuntimeError with the
\* envelope; subscripting None (TypeError) and calling a method of None
\* (AttributeError) are not caught
parse_envelope(data) ==
    LET choices == data.choices
    IN  IF choices = JAbsent THEN Raise(RuntimeError(data))       \* KeyError
        ELSE IF choices = JNull THEN Raise(Err(TypeError))        \* None[0]
        ELSE IF choices.v = <<>> THEN Raise(RuntimeError(data))   \* IndexError
        ELSE LET choice == choices.v[1]
             IN  IF choice = JNull THEN Raise(Err(AttributeError))    \* None.get
                 ELSE LET message == choice.v.message
                      IN  IF message = JAbsent THEN Raise(RuntimeError(data))
                          ELSE IF message = JNull THEN Raise(Err(TypeError))
                          ELSE LET content == message.v.content
                               IN  IF content = JAbsent THEN Raise(RuntimeError(data))
                                   ELSE IF content = JNull
                                        THEN Raise(Err(AttributeError))   \* None.strip
                                        ELSE Return(strip(content.v))

\* lines 39-74 (sql_agent.py 166-201, unified_agent.py 18-53 are the same)
CallLlmMessages ==
    /\ mode = "envelope"
    /\ pc = "call"
    /\ \/ /\ exc' = Err(TransportError)             \* post or raise_for_status
          /\ pc' = "fatal"
          /\ result' = result
       \/ LET out == parse_envelope(arg.data)
          IN  IF out.do = "raise"
              THEN /\ exc' = out.exc
                   /\ pc' = "fatal"
                   /\ result' = result
              ELSE /\ result' = [text |-> out.text]
                   /\ pc' = "done"
                   /\ exc' = exc
    /\ UNCHANGED <<start_idx, chunks, store, pending, rows, store_before>>
    /\ UNCHANGED <<main, conversations, heap, threads, added>>
    /\ UNCHANGED <<arg, ops_done, conns_closed>>
    /\ UNCHANGED <<mode, max_steps, name_norm, step, history, context, oracle_calls,
                   responses, parsed, sql, gate, conn, conns_opened, db_log, fetched,
                   tool_calls>>

-----------------------------------------------------------------------------

(* One call of a function of the pipeline on any argument *)

\* the caller hands the text it got to extract_json_object once more
ExtractJsonObjectAgain ==
    /\ mode = "extract"
    /\ pc = "done"
    /\ result' = [text |-> result.text, again |-> extract_json_object(result.text)]
    /\ pc' = "again"
    /\ UNCHANGED <<start_idx, chunks, store, pending, rows, store_before>>
    /\ UNCHANGED <<main, conversations, heap, threads, added>>
    /\ UNCHANGED <<arg, ops_done, conns_closed>>
    /\ UNCHANGED <<mode, max_steps, name_norm, step, history, context, oracle_calls,
                   responses, parsed, sql, gate, conn, conns_opened, db_log, fetched,
                   exc, tool_calls>>

InitFn ==
    /\ mode \in {"normalize", "refine", "extract", "search", "envelope"}
    /\ arg \in CASE mode = "normalize" -> NormResponses
               [] mode = "refine"    -> RefineResponses
               [] mode = "extract"   -> { [kind |-> "text", text |-> t] : t \in ExtractInputs }
               [] mode = "search"    -> { [kind |-> "results", lists |-> l] : l \in SearchResults }
               [] mode = "envelope"  -> { [kind |-> "envelope", data |-> d] : d \in Envelopes }
    /\ pc = "call"
    /\ max_steps = 0
    /\ name_norm = "unset"
    /\ step = 0
    /\ history = <<>>
    /\ context = [history |-> <<>>, name_normalization |-> "unset"]
    /\ oracle_calls = 0
    /\ responses = <<>>
    /\ parsed = NoResponse
    /\ sql = <<>>
    /\ gate = "none"
    /\ conn = "none"
    /\ conns_opened = 0
    /\ db_log = <<>>
    /\ fetched = "none"
    /\ exc = NoExc
    /\ tool_calls = <<>>
    /\ result = NoResult
    /\ ops_done = 0
    /\ conns_closed = 0
    /\ start_idx = 0
    /\ chunks = <<>>
    /\ store = {}
    /\ pending = {}
    /\ rows = <<>>
    /\ store_before = {}
    /\ main = NoMain
    /\ conversations = <<>>
    /\ heap = <<>>
    /\ threads = <<>>
    /\ added = <<>>

NextFn ==
    NormalizePlayerName \/ ProcessQuery \/ ExtractJsonObject \/ SearchWeb
    \/ CallLlmMessages \/ ExtractJsonObjectAgain

SpecFn == InitFn /\ [][NextFn]_vars

-----------------------------------------------------------------------------

(* process_text_into_chunks_with_embeddings: fetch, extract, tokenise, cut  *)
(* into overlapping windows, embed                                          *)

CHUNK_DIM     == 384
CHUNK_SIZE    == 512
CHUNK_OVERLAP == 64

IndexError == "IndexError: list index out of range"

\* what trafilatura.extract gives for a url: None, or a text of ntokens
\* tokens with gap characters of white space between two tokens
NoText == [extracted |-> FALSE, ntokens |-> 0, gap |-> 0]
Documents ==
    { NoText } \cup
    { [extracted |-> TRUE, ntokens |-> n, gap |-> g] : n \in 0..MaxTokens, g \in 0..1 }

\* offset_mapping of the tokeniser: the character span of token i (from 0)
offsets(doc, i) ==
    [start |-> i * (1 + doc.gap), end |-> i * (1 + doc.gap) + 1]

min(a, b) == IF a <= b THEN a ELSE b

\* lines 106-115: no text: zero chunks at once; else the text is tokenised
ChunkExtract ==
    /\ mode = "chunk"
    /\ pc = "call"
    /\ IF ~arg.extracted
       THEN /\ result' = [url |-> "u1", chunks |-> <<>>, embeddings |-> 0]
            /\ pc' = "done"
       ELSE /\ result' = result
            /\ pc' = "chunk_loop"
    /\ start_idx' = 0
    /\ chunks' = <<>>
    /\ UNCHANGED <<store, pending, rows, store_before>>
    /\ UNCHANGED <<main, conversations, heap, threads, added>>
    /\ UNCHANGED <<arg, ops_done, conns_closed>>
    /\ UNCHANGED <<mode, max_steps, name_norm, step, history, context, oracle_calls,
                   responses, parsed, sql, gate, conn, conns_opened, db_log, fetched,
                   exc, tool_calls>>

\* Variant of lines 116-124 that advances by a whole window and the overlap.
ChunkStepTooFar ==
    /\ mode = "chunk"
    /\ pc = "chunk_loop"
    /\ LET end_idx == arg.ntokens - 1
       IN  IF arg.ntokens = 0
           THEN /\ exc' = Err(IndexError)
                /\ pc' = "fatal"
                /\ UNCHANGED <<start_idx, chunks>>
           ELSE LET l_start == offsets(arg, start_idx).start
                    r_idx   == min(end_idx, start_idx + CHUNK_SIZE - 1)
                    r_end   == offsets(arg, r_idx).end
                IN  /\ chunks' = Append(chunks, [first |-> start_idx, last |-> r_idx,
                                                 text |-> <<l_start, r_end>>])
                    /\ exc' = exc
                    /\ IF r_idx = end_idx
                       THEN pc' = "embed" /\ start_idx' = start_idx
                       ELSE /\ pc' = "chunk_loop"
                            /\ start_idx' = min(end_idx, start_idx + (CHUNK_SIZE + CHUNK_OVERLAP))
    /\ UNCHANGED <<store, pending, rows, store_before>>
    /\ UNCHANGED <<main, conversations, heap, threads, added>>
    /\ UNCHANGED <<arg, ops_done, conns_closed>>
    /\ UNCHANGED <<mode, max_steps, name_norm, step, history, context, oracle_calls,
                   responses, parsed, sql, gate, conn, conns_opened, db_log, fetched,
                   tool_calls, result>>

\* lines 116-124: one turn of the loop; a chunk is the tokens first..last and
\* the characters text[l_start:r_end] of the original text
ChunkStep ==
    /\ mode = "chunk"
    /\ pc = "chunk_loop"
    /\ LET end_idx == arg.ntokens - 1
       IN  IF arg.ntokens = 0
           THEN /\ exc' = Err(IndexError)
                /\ pc' = "fatal"
                /\ UNCHANGED <<start_idx, chunks>>
           ELSE LET l_start == offsets(arg, start_idx).start
                    r_idx   == min(end_idx, start_idx + CHUNK_SIZE - 1)
                    r_end   == offsets(arg, r_idx).end
                IN  /\ chunks' = Append(chunks, [first |-> start_idx, last |-> r_idx,
                                                 text |-> <<l_start, r_end>>])
                    /\ exc' = exc
                    /\ IF r_idx = end_idx
                       THEN pc' = "embed" /\ start_idx' = start_idx
                       ELSE /\ pc' = "chunk_loop"
                            /\ start_idx' = min(end_idx, start_idx + (CHUNK_SIZE - CHUNK_OVERLAP))
    /\ UNCHANGED <<store, pending, rows, store_before>>
    /\ UNCHANGED <<main, conversations, heap, threads, added>>
    /\ UNCHANGED <<arg, ops_done, conns_closed>>
    /\ UNCHANGED <<mode, max_steps, name_norm, step, history, context, oracle_calls,
                   responses, parsed, sql, gate, conn, conns_opened, db_log, fetched,
                   tool_calls, result>>

\* lines 125-127: one embedding per chunk; url, chunks, embeddings are returned
ChunkEmbed ==
    /\ mode = "chunk"
    /\ pc = "embed"
    /\ result' = [url |-> "u1", chunks |-> chunks, embeddings |-> Len(chunks)]
    /\ pc' = "done"
    /\ UNCHANGED <<start_idx, chunks, store, pending, rows, store_before>>
    /\ UNCHANGED <<main, conversations, heap, threads, added>>
    /\ UNCHANGED <<arg, ops_done, conns_closed>>
    /\ UNCHANGED <<mode, max_steps, name_norm, step, history, context, oracle_calls,
                   responses, parsed, sql, gate, conn, conns_opened, db_log, fetched,
                   exc, tool_calls>>

process_text_into_chunks_with_embeddings == ChunkExtract \/ ChunkStep \/ ChunkEmbed

InitChunk ==
    /\ mode = "chunk"
    /\ arg \in Documents
    /\ pc = "call"
    /\ max_steps = 0
    /\ name_norm = "unset"
    /\ step = 0
    /\ history = <<>>
    /\ context = [history |-> <<>>, name_normalization |-> "unset"]
    /\ oracle_calls = 0
    /\ responses = <<>>
    /\ parsed = NoResponse
    /\ sql = <<>>
    /\ gate = "none"
    /\ conn = "none"
    /\ conns_opened = 0
    /\ db_log = <<>>
    /\ fetched = "none"
    /\ exc = NoExc
    /\ tool_calls = <<>>
    /\ result = NoResult
    /\ ops_done = 0
    /\ conns_closed = 0
    /\ start_idx = 0
    /\ chunks = <<>>
    /\ store = {}
    /\ pending = {}
    /\ rows = <<>>
    /\ store_before = {}
    /\ main = NoMain
    /\ conversations = <<>>
    /\ heap = <<>>
    /\ threads = <<>>
    /\ added = <<>>

NextChunk == ChunkExtract \/ ChunkStep \/ ChunkEmbed

SpecChunk == InitChunk /\ [][NextChunk]_vars

-----------------------------------------------------------------------------

(* The three operations that open a database connection, called one after  *)
(* the other: execute_sql, insert_embeddings_into_db, retrieve_top_k_chunks *)
(* The table web_chunks is a set of rows; a row is keyed by                 *)
(* (url, chunk_index).                                                      *)

AssertionError == "AssertionError"
EncodeError    == "embedding model failed"

Row(u, i, t, e) == [url |-> u, chunk_index |-> i, chunk_text |-> t, embedding |-> e]

SameKey(r, n) == r.url = n.url /\ r.chunk_index = n.chunk_index

\* the arguments of insert_embeddings_into_db: url, chunks, and embeddings as
\* its rows and its second dimension
InsertCall(u, c, v, d) == [kind |-> "op", op |-> "insert", url |-> u, chunks |-> c,
                           embeddings |-> [vecs |-> v, dim |-> d]]

InsertCalls ==
    { InsertCall(u, c[1], c[2], CHUNK_DIM) :
        u \in {"u1", "u2"},
        c \in { << <<"ta">>, <<"e1">> >>,
                << <<"tb">>, <<"e2">> >>,
                << <<"ta", "tb">>, <<"e1", "e2">> >>,
                << <<"tb", "tb">>, <<"e2", "e1">> >>,
                << <<"ta", "tb">>, <<"e1">> >> } }
    \cup { InsertCall("u1", <<"tb">>, <<"e1">>, CHUNK_DIM + 1) }

\* the refined queries of the refine step, and what main hands to the
\* retrieval: their query strings in list order (web_agent.py line 70)
RefinedQuery(r, q) == [role |-> r, query |-> q]

QueryLists ==
    { <<>>,
      <<RefinedQuery("primary", "q1")>>,
      <<RefinedQuery("primary", "q1"), RefinedQuery("supporting", "q2")>>,
      <<RefinedQuery("supporting", "q2"), RefinedQuery("primary", "q1")>> }

query_strings(refined_queries) ==
    [i \in 1..Len(refined_queries) |-> refined_queries[i].query]

RetrieveCall(qs, k) == [kind |-> "op", op |-> "retrieve", refined |-> qs,
                        refined_queries |-> query_strings(qs), k |-> k]

RetrieveCalls == { RetrieveCall(qs, k) : qs \in QueryLists, k \in {1, 2, 5} }

\* embedding <=> q.v: the distance of a stored embedding from the embedding
\* of a query string
distance(q, e) ==
    IF (q = "q1" /\ e = "e1") \/ (q = "q2" /\ e = "e2") THEN 1 ELSE 2

\* a caller starts one of the three operations
StartOp ==
    /\ mode = "db"
    /\ pc = "idle"
    /\ ops_done < MaxOps
    /\ \/ /\ arg' = [kind |-> "op", op |-> "execute_sql"]
          /\ sql' \in {sql_select_x, sql_drop}
          /\ pc' = "validate"
       \/ /\ arg' \in InsertCalls
          /\ pc' = "ins_assert"
          /\ sql' = sql
       \/ /\ arg' \in RetrieveCalls
          /\ pc' = "ret_check"
          /\ sql' = sql
    /\ store_before' = store
    /\ UNCHANGED <<main, conversations, heap, threads, added>>
    /\ UNCHANGED <<start_idx, chunks, store, pending, rows>>
    /\ UNCHANGED <<ops_done, conns_closed>>
    /\ UNCHANGED <<mode, max_steps, name_norm, step, history, context, oracle_calls,
                   responses, parsed, gate, conn, conns_opened, db_log, fetched,
                   exc, tool_calls, result>>

\* lines 136-137: the two assertions on the shape of the embeddings
InsertAssert ==
    /\ pc = "ins_assert"
    /\ IF /\ arg.embeddings.dim = CHUNK_DIM
          /\ Len(arg.chunks) = Len(arg.embeddings.vecs)
       THEN pc' = "ins_connect" /\ exc' = exc
       ELSE pc' = "raised" /\ exc' = Err(AssertionError)
    /\ UNCHANGED <<start_idx, chunks, store, pending, rows, store_before>>
    /\ UNCHANGED <<main, conversations, heap, threads, added>>
    /\ UNCHANGED <<arg, ops_done, conns_closed>>
    /\ UNCHANGED <<mode, max_steps, name_norm, step, history, context, oracle_calls,
                   responses, parsed, sql, gate, conn, conns_opened, db_log, fetched,
                   tool_calls, result>>

\* lines 143-144: psycopg2.connect(db_url) gives a connection, or raises;
\* conn.cursor() makes a client-side cursor; the transaction sees the table
InsertConnect ==
    /\ pc = "ins_connect"
    /\ \/ /\ conn' = "open"
          /\ conns_opened' = conns_opened + 1
          /\ pc' = "ins_write"
          /\ exc' = exc
       \/ /\ exc' = Err(ConnectError)
          /\ pc' = "raised"
          /\ UNCHANGED <<conn, conns_opened>>
    /\ pending' = store
    /\ UNCHANGED <<start_idx, chunks, store, rows, store_before>>
    /\ UNCHANGED <<main, conversations, heap, threads, added>>
    /\ UNCHANGED <<arg, ops_done, conns_closed>>
    /\ UNCHANGED <<mode, max_steps, name_norm, step, history, context, oracle_calls,
                   responses, parsed, sql, gate, db_log, fetched, tool_calls, result>>

\* lines 146-150: one record (url, idx, chunk_text, emb_str) per chunk
records(call) ==
    { Row(call.url, i - 1, call.chunks[i], call.embeddings.vecs[i]) :
        i \in 1..min(Len(call.chunks), Len(call.embeddings.vecs)) }

\* Variant of lines 152-159 with ON CONFLICT (url, chunk_index) DO NOTHING.
insert_or_keep(table, recs) ==
    table \cup { n \in recs : ~\E r \in table : SameKey(r, n) }

\* lines 152-159: INSERT ... ON CONFLICT (url, chunk_index) DO UPDATE SET
\* chunk_text = EXCLUDED.chunk_text, embedding = EXCLUDED.embedding
\* Variant of lines 152-159 that deletes the url's rows before it inserts.
replace_document(table, recs) ==
    { r \in table : ~\E n \in recs : r.url = n.url } \cup recs

upsert(table, recs) ==
    { r \in table : ~\E n \in recs : SameKey(r, n) } \cup recs

\* Variant of lines 145-166 that commits what was written before an error.
InsertWriteAutocommit ==
    /\ pc = "ins_write"
    /\ \/ /\ store' = upsert(store, records(arg))
          /\ pending' = store'
          /\ fetched' = "committed"
          /\ pc' = "ins_finally"
          /\ exc' = exc
       \/ /\ \E j \in 0..Len(arg.chunks) :
                 pending' = upsert(store, { r \in records(arg) : r.chunk_index < j })
          /\ store' = pending'
          /\ exc' = Err(DbError)
          /\ pc' = "ins_except"
          /\ fetched' = fetched
    /\ UNCHANGED <<start_idx, chunks, rows, store_before>>
    /\ UNCHANGED <<main, conversations, heap, threads, added>>
    /\ UNCHANGED <<arg, ops_done, conns_closed>>
    /\ UNCHANGED <<mode, max_steps, name_norm, step, history, context, oracle_calls,
                   responses, parsed, sql, gate, conn, conns_opened, db_log,
                   tool_calls, result>>

\* lines 145-166: the records, execute_values and conn.commit(); or an error
\* of the store after some of the records were written in the transaction
InsertWrite ==
    /\ pc = "ins_write"
    /\ \/ /\ store' = upsert(store, records(arg))
          /\ pending' = store'
          /\ fetched' = "committed"
          /\ pc' = "ins_finally"
          /\ exc' = exc
       \/ /\ \E j \in 0..Len(arg.chunks) :
                 pending' = upsert(store, { r \in records(arg) : r.chunk_index < j })
          /\ store' = store
          /\ exc' = Err(DbError)
          /\ pc' = "ins_except"
          /\ fetched' = fetched
    /\ UNCHANGED <<start_idx, chunks, rows, store_before>>
    /\ UNCHANGED <<main, conversations, heap, threads, added>>
    /\ UNCHANGED <<arg, ops_done, conns_closed>>
    /\ UNCHANGED <<mode, max_steps, name_norm, step, history, context, oracle_calls,
                   responses, parsed, sql, gate, conn, conns_opened, db_log,
                   tool_calls, result>>

\* lines 167-170: except: conn.rollback(), which may itself raise; raise
InsertExcept ==
    /\ pc = "ins_except"
    /\ \/ /\ fetched' = "rolled_back"
          /\ pending' = store
          /\ exc' = exc
       \/ /\ fetched' = fetched
          /\ pending' = pending
          /\ exc' = Err(ConnectError)
    /\ pc' = "ins_finally"
    /\ UNCHANGED <<start_idx, chunks, store, rows, store_before>>
    /\ UNCHANGED <<main, conversations, heap, threads, added>>
    /\ UNCHANGED <<arg, ops_done, conns_closed>>
    /\ UNCHANGED <<mode, max_steps, name_norm, step, history, context, oracle_calls,
                   responses, parsed, sql, gate, conn, conns_opened, db_log,
                   tool_calls, result>>

\* Variant of lines 171-173 in which the connection is closed after the commit
\* only, not in a finally clause.
InsertCloseOnSuccessOnly ==
    /\ pc = "ins_finally"
    /\ IF exc = NoExc
       THEN /\ conn' = "closed"
            /\ conns_closed' = conns_closed + 1
            /\ pc' = "returned"
       ELSE /\ UNCHANGED <<conn, conns_closed>>
            /\ pc' = "raised"
    /\ pending' = store
    /\ UNCHANGED <<start_idx, chunks, store, rows, store_before>>
    /\ UNCHANGED <<main, conversations, heap, threads, added>>
    /\ UNCHANGED <<arg, ops_done>>
    /\ UNCHANGED <<mode, max_steps, name_norm, step, history, context, oracle_calls,
                   responses, parsed, sql, gate, conns_opened, db_log, fetched, exc,
                   tool_calls, result>>

\* lines 171-173: finally: cursor.close(); conn.close(), which ends a
\* transaction that was not committed; then the return or the exception goes on
InsertFinally ==
    /\ pc = "ins_finally"
    /\ conn' = "closed"
    /\ conns_closed' = conns_closed + 1
    /\ pending' = store
    /\ pc' = IF exc = NoExc THEN "returned" ELSE "raised"
    /\ UNCHANGED <<start_idx, chunks, store, rows, store_before>>
    /\ UNCHANGED <<main, conversations, heap, threads, added>>
    /\ UNCHANGED <<arg, ops_done>>
    /\ UNCHANGED <<mode, max_steps, name_norm, step, history, context, oracle_calls,
                   responses, parsed, sql, gate, conns_opened, db_log, fetched, exc,
                   tool_calls, result>>

insert_embeddings_into_db ==
    InsertAssert \/ InsertConnect \/ InsertWrite \/ InsertExcept \/ InsertFinally

\* lines 195-196: the vector the ranking uses: the embedding of the first of
\* the strings handed in
query_embed(refined_queries) == refined_queries[1]

\* a result row of the two SELECTs: url, chunk_index, chunk_text, distance
Scored(table, q) ==
    { [url |-> r.url, chunk_index |-> r.chunk_index, chunk_text |-> r.chunk_text,
       distance |-> distance(q, r.embedding)] : r \in table }

\* the orders in which a query may return the rows of a set
RECURSIVE Orders(_)
Orders(S) ==
    IF S = {} THEN { <<>> }
    ELSE UNION { { <<x>> \o p : p \in Orders(S \ {x}) } : x \in S }

\* the first k elements, s[:k]
first_k(s, k) == SubSeq(s, 1, min(k, Len(s)))

\* lines 225-237: ORDER BY distance LIMIT k: the answers the statement allows
\* (rows of equal distance come in any order)
sql_primary(table, q, k) ==
    { first_k(s, k) : s \in { p \in Orders(Scored(table, q)) :
                               \A i \in 1..(Len(p) - 1) : p[i].distance <= p[i + 1].distance } }

\* lines 247-258: the same SELECT without ORDER BY and LIMIT
sql_fallback(table, q) == Orders(Scored(table, q))

\* sorted(all_rows, key=lambda r: r[3]): stable, by insertion from the left
RECURSIVE sorted(_)
sorted(s) ==
    IF s = <<>> THEN <<>>
    ELSE LET init == sorted(SubSeq(s, 1, Len(s) - 1))
             x    == s[Len(s)]
             n    == Cardinality({ i \in 1..Len(init) : init[i].distance <= x.distance })
         IN  SubSeq(init, 1, n) \o <<x>> \o SubSeq(init, n + 1, Len(init))

\* lines 188-198: no refined query: return [] at once; else the queries are
\* encoded, which may raise
RetrieveCheck ==
    /\ pc = "ret_check"
    /\ \/ /\ arg.refined_queries = <<>>
          /\ fetched' = "no_queries"
          /\ result' = [chunks |-> <<>>]
          /\ pc' = "returned"
          /\ exc' = exc
       \/ /\ arg.refined_queries # <<>>
          /\ \/ pc' = "ret_connect" /\ exc' = exc
             \/ pc' = "raised" /\ exc' = Err(EncodeError)
          /\ fetched' = fetched
          /\ result' = result
    /\ UNCHANGED <<start_idx, chunks, store, pending, rows, store_before>>
    /\ UNCHANGED <<main, conversations, heap, threads, added>>
    /\ UNCHANGED <<arg, ops_done, conns_closed>>
    /\ UNCHANGED <<mode, max_steps, name_norm, step, history, context, oracle_calls,
                   responses, parsed, sql, gate, conn, conns_opened, db_log,
                   tool_calls>>

\* lines 203-205: psycopg2.connect(db_url) gives a connection, or raises;
\* conn.cursor() makes a client-side cursor; rows = []
RetrieveConnect ==
    /\ pc = "ret_connect"
    /\ \/ /\ conn' = "open"
          /\ conns_opened' = conns_opened + 1
          /\ pc' = "ret_probes"
          /\ exc' = exc
       \/ /\ exc' = Err(ConnectError)
          /\ pc' = "raised"
          /\ UNCHANGED <<conn, conns_opened>>
    /\ rows' = <<>>
    /\ UNCHANGED <<start_idx, chunks, store, pending, store_before>>
    /\ UNCHANGED <<main, conversations, heap, threads, added>>
    /\ UNCHANGED <<arg, ops_done, conns_closed>>
    /\ UNCHANGED <<mode, max_steps, name_norm, step, history, context, oracle_calls,
                   responses, parsed, sql, gate, db_log, fetched, tool_calls, result>>

\* lines 209-213: SET LOCAL ivfflat.probes; a failure is printed and ignored
RetrieveProbes ==
    /\ pc = "ret_probes"
    /\ fetched' \in {"probes_set", "probes_failed"}
    /\ pc' = "ret_count"
    /\ UNCHANGED <<start_idx, chunks, store, pending, rows, store_before>>
    /\ UNCHANGED <<main, conversations, heap, threads, added>>
    /\ UNCHANGED <<arg, ops_done, conns_closed>>
    /\ UNCHANGED <<mode, max_steps, name_norm, step, history, context, oracle_calls,
                   responses, parsed, sql, gate, conn, conns_opened, db_log, exc,
                   tool_calls, result>>

\* Variant of lines 215-221 without the except clause of lines 267-272: an
\* error of the count goes to the caller.
RetrieveCountRaising ==
    /\ pc = "ret_count"
    /\ \/ /\ store = {}
          /\ fetched' = "store_empty"
          /\ pc' = "ret_finally"
          /\ exc' = exc
       \/ /\ store # {}
          /\ fetched' = "counted"
          /\ pc' = "ret_primary"
          /\ exc' = exc
       \/ /\ fetched' = "swallowed"
          /\ pc' = "raised"
          /\ exc' = Err(DbError)
    /\ db_log' = Append(db_log, <<"count">>)
    /\ UNCHANGED <<start_idx, chunks, store, pending, rows, store_before>>
    /\ UNCHANGED <<main, conversations, heap, threads, added>>
    /\ UNCHANGED <<arg, ops_done, conns_closed>>
    /\ UNCHANGED <<mode, max_steps, name_norm, step, history, context, oracle_calls,
                   responses, parsed, sql, gate, conn, conns_opened,
                   tool_calls, result>>

\* lines 215-221 and 267-272: SELECT COUNT(*): no chunk: return [] from inside
\* the try; an error is printed and swallowed, rows = []
RetrieveCount ==
    /\ pc = "ret_count"
    /\ \/ /\ store = {}
          /\ fetched' = "store_empty"
          /\ pc' = "ret_finally"
       \/ /\ store # {}
          /\ fetched' = "counted"
          /\ pc' = "ret_primary"
       \/ /\ fetched' = "swallowed"
          /\ pc' = "ret_finally"
    /\ db_log' = Append(db_log, <<"count">>)
    /\ UNCHANGED <<start_idx, chunks, store, pending, rows, store_before>>
    /\ UNCHANGED <<main, conversations, heap, threads, added>>
    /\ UNCHANGED <<arg, ops_done, conns_closed>>
    /\ UNCHANGED <<mode, max_steps, name_norm, step, history, context, oracle_calls,
                   responses, parsed, sql, gate, conn, conns_opened, exc,
                   tool_calls, result>>

\* Variant of lines 243-265 without the fallback: what the ordered query gave
\* is returned.
RetrievePrimaryOnly ==
    /\ pc = "ret_primary"
    /\ \/ /\ rows' \in sql_primary(store, query_embed(arg.refined_queries), arg.k)
          /\ fetched' = "primary"
          /\ pc' = "ret_finally"
       \/ /\ rows' = <<>>
          /\ fetched' = "primary_empty"
          /\ pc' = "ret_finally"
       \/ /\ rows' = <<>>
          /\ fetched' = "swallowed"
          /\ pc' = "ret_finally"
    /\ db_log' = Append(db_log, <<"primary">>)
    /\ UNCHANGED <<start_idx, chunks, store, pending, store_before>>
    /\ UNCHANGED <<main, conversations, heap, threads, added>>
    /\ UNCHANGED <<arg, ops_done, conns_closed>>
    /\ UNCHANGED <<mode, max_steps, name_norm, step, history, context, oracle_calls,
                   responses, parsed, sql, gate, conn, conns_opened, exc,
                   tool_calls, result>>

\* lines 223-245 and 267-272: the ORDER BY ... LIMIT query: its rows, or no
\* row at all although the table has rows (the failure of ordered queries
\* behind a pooler), or an error that is swallowed
RetrievePrimary ==
    /\ pc = "ret_primary"
    /\ \/ /\ rows' \in sql_primary(store, query_embed(arg.refined_queries), arg.k)
          /\ fetched' = "primary"
          /\ pc' = "ret_finally"
       \/ /\ rows' = <<>>
          /\ fetched' = "primary_empty"
          /\ pc' = "ret_fallback"
       \/ /\ rows' = <<>>
          /\ fetched' = "swallowed"
          /\ pc' = "ret_finally"
    /\ db_log' = Append(db_log, <<"primary">>)
    /\ UNCHANGED <<start_idx, chunks, store, pending, store_before>>
    /\ UNCHANGED <<main, conversations, heap, threads, added>>
    /\ UNCHANGED <<arg, ops_done, conns_closed>>
    /\ UNCHANGED <<mode, max_steps, name_norm, step, history, context, oracle_calls,
                   responses, parsed, sql, gate, conn, conns_opened, exc,
                   tool_calls, result>>

\* Variant of lines 247-265 that takes the first k rows as the query gave them.
RetrieveFallbackUnsorted ==
    /\ pc = "ret_fallback"
    /\ \/ /\ \E all_rows \in sql_fallback(store, query_embed(arg.refined_queries)) :
                 rows' = first_k(all_rows, arg.k)
          /\ fetched' = "fallback"
       \/ /\ rows' = <<>>
          /\ fetched' = "swallowed"
    /\ db_log' = Append(db_log, <<"fallback">>)
    /\ pc' = "ret_finally"
    /\ UNCHANGED <<start_idx, chunks, store, pending, store_before>>
    /\ UNCHANGED <<main, conversations, heap, threads, added>>
    /\ UNCHANGED <<arg, ops_done, conns_closed>>
    /\ UNCHANGED <<mode, max_steps, name_norm, step, history, context, oracle_calls,
                   responses, parsed, sql, gate, conn, conns_opened, exc,
                   tool_calls, result>>

\* lines 247-265 and 267-272: the fallback query, its rows sorted by distance
\* in Python and cut to k; or an error that is swallowed
RetrieveFallback ==
    /\ pc = "ret_fallback"
    /\ \/ /\ \E all_rows \in sql_fallback(store, query_embed(arg.refined_queries)) :
                 rows' = first_k(sorted(all_rows), arg.k)
          /\ fetched' = "fallback"
       \/ /\ rows' = <<>>
          /\ fetched' = "swallowed"
    /\ db_log' = Append(db_log, <<"fallback">>)
    /\ pc' = "ret_finally"
    /\ UNCHANGED <<start_idx, chunks, store, pending, store_before>>
    /\ UNCHANGED <<main, conversations, heap, threads, added>>
    /\ UNCHANGED <<arg, ops_done, conns_closed>>
    /\ UNCHANGED <<mode, max_steps, name_norm, step, history, context, oracle_calls,
                   responses, parsed, sql, gate, conn, conns_opened, exc,
                   tool_calls, result>>

\* lines 273-286: finally: cursor.close(); conn.close(); the rows are returned
\* as closest_chunks
RetrieveFinally ==
    /\ pc = "ret_finally"
    /\ conn' = "closed"
    /\ conns_closed' = conns_closed + 1
    /\ result' = [chunks |-> rows]
    /\ pc' = "returned"
    /\ UNCHANGED <<start_idx, chunks, store, pending, rows, store_before>>
    /\ UNCHANGED <<main, conversations, heap, threads, added>>
    /\ UNCHANGED <<arg, ops_done>>
    /\ UNCHANGED <<mode, max_steps, name_norm, step, history, context, oracle_calls,
                   responses, parsed, sql, gate, conns_opened, db_log, fetched, exc,
                   tool_calls>>

retrieve_top_k_chunks ==
    \/ RetrieveCheck \/ RetrieveConnect \/ RetrieveProbes \/ RetrieveCount
    \/ RetrievePrimary \/ RetrieveFallback \/ RetrieveFinally

\* generate_prompt and generate_answer (web_agent_utils.py lines 289-321).
\* A text built by an f-string is the sequence of its literal pieces and of
\* its formatted values.
NO_SNIPPETS == "No web snippets were retrieved for this question."

WEB_AGENT_PROMPT == "WEB_AGENT_PROMPT"

\* f"{i}" of a small non-negative int
format_int(n) == <<"0", "1", "2", "3", "4", "5", "6", "7", "8", "9">>[n + 1]

\* lines 298-302: the text of one chunk, i counting from 0
source_line(i, ch) ==
    <<"[Source ", format_int(i), "] URL: ", ch.url,
      "\nChunk index: ", format_int(ch.chunk_index),
      "\nContent:\n", ch.chunk_text, "\n">>

\* sep.join(lines)
RECURSIVE join(_, _)
join(lines, sep) ==
    IF lines = <<>> THEN <<>>
    ELSE IF Len(lines) = 1 THEN lines[1]
    ELSE join(SubSeq(lines, 1, Len(lines) - 1), sep) \o <<sep>> \o lines[Len(lines)]

\* Variant of lines 291-303 without the branch on `not chunks`.
context_str_joined(top_k) ==
    join([i \in 1..Len(top_k) |-> source_line(i - 1, top_k[i])], "\n\n")

\* lines 291-303
context_str(top_k) ==
    IF top_k = <<>> THEN <<NO_SNIPPETS>>
    ELSE join([i \in 1..Len(top_k) |-> source_line(i - 1, top_k[i])], "\n\n")

\* lines 304-316
generate_prompt(original_query, top_k) ==
    << [role |-> "system", content |-> <<WEB_AGENT_PROMPT>>],
       [role |-> "user",
        content |-> <<"User question:\n    ", original_query,
                      "\n\n    Retrieved web context:\n    ">>
                    \o context_str(top_k)
                    \o <<"\n\n    Now, using the web context above">>] >>

OriginalQueries == {"who won", "what happened"}

\* the retrieval has returned to its caller, which builds the messages from
\* the chunks and makes the one call of the synthesis: generate_answer gives
\* the oracle's text or raises what call_llm_messages raises
Synthesize ==
    /\ mode = "db"
    /\ pc = "returned"
    /\ arg.kind = "op" /\ arg.op = "retrieve"
    /\ \E q \in OriginalQueries :
          LET messages == generate_prompt(q, result.chunks)
          IN  \/ /\ result' = [chunks |-> result.chunks, original_query |-> q,
                               messages |-> messages, answer |-> "answer"]
                 /\ pc' = "synthesized"
                 /\ exc' = exc
              \/ /\ result' = [chunks |-> result.chunks, original_query |-> q,
                               messages |-> messages]
                 /\ pc' = "raised"
                 /\ exc' = Err(TransportError)
    /\ oracle_calls' = oracle_calls + 1
    /\ UNCHANGED <<start_idx, chunks, store, pending, rows, store_before>>
    /\ UNCHANGED <<main, conversations, heap, threads, added>>
    /\ UNCHANGED <<arg, ops_done, conns_closed>>
    /\ UNCHANGED <<mode, max_steps, name_norm, step, history, context, responses,
                   parsed, sql, gate, conn, conns_opened, db_log, fetched,
                   tool_calls>>

\* the operation has returned or raised: the caller has control again and the
\* names of the call are gone
EndOp ==
    /\ mode = "db"
    /\ pc \in {"returned", "raised", "synthesized"}
    /\ pc' = "idle"
    /\ ops_done' = ops_done + 1
    /\ arg' = NoArg
    /\ conn' = "none"
    /\ gate' = "none"
    /\ fetched' = "none"
    /\ exc' = NoExc
    /\ rows' = <<>>
    /\ result' = NoResult
    /\ db_log' = <<>>
    /\ UNCHANGED <<start_idx, chunks, store, pending, store_before>>
    /\ UNCHANGED <<main, conversations, heap, threads, added>>
    /\ UNCHANGED <<mode, max_steps, name_norm, step, history, context, oracle_calls,
                   responses, parsed, sql, conns_opened, conns_closed, tool_calls>>

InitDb ==
    /\ mode = "db"
    /\ pc = "idle"
    /\ sql = <<>>
    /\ max_steps = 0
    /\ name_norm = "unset"
    /\ step = 0
    /\ history = <<>>
    /\ context = [history |-> <<>>, name_normalization |-> "unset"]
    /\ oracle_calls = 0
    /\ responses = <<>>
    /\ parsed = NoResponse
    /\ gate = "none"
    /\ conn = "none"
    /\ conns_opened = 0
    /\ db_log = <<>>
    /\ fetched = "none"
    /\ exc = NoExc
    /\ tool_calls = <<>>
    /\ result = NoResult
    /\ arg = NoArg
    /\ ops_done = 0
    /\ conns_closed = 0
    /\ start_idx = 0
    /\ chunks = <<>>
    /\ store = {}
    /\ pending = {}
    /\ rows = <<>>
    /\ store_before = {}
    /\ main = NoMain
    /\ conversations = <<>>
    /\ heap = <<>>
    /\ threads = <<>>
    /\ added = <<>>

NextDb ==
    \/ StartOp
    \/ Validate \/ Connect \/ Execute \/ Close
    \/ InsertAssert \/ InsertConnect \/ InsertWrite \/ InsertExcept \/ InsertFinally
    \/ RetrieveCheck \/ RetrieveConnect \/ RetrieveProbes \/ RetrieveCount
    \/ RetrievePrimary \/ RetrieveFallback \/ RetrieveFinally
    \/ Synthesize
    \/ EndOp

SpecDb == InitDb /\ [][NextDb]_vars

-----------------------------------------------------------------------------
(* One pass of web_agent.main: refine, search, then for each hit fetch,      *)
(* extract, chunk, embed and store, then one retrieval                      *)

FetchError == "fetch or tokenizer failed"

\* the hits search_web may return: no hit twice (lines 98-101), two hits may
\* share the url
PassHits == { Hit("u1", "t1", "b1"), Hit("u1", "t2", "b1"), Hit("u2", "t1", "b1") }

PassResults ==
    { r \in SeqsUpTo(PassHits, MaxHits) :
        \A i, j \in DOMAIN r : i # j => r[i] # r[j] }

\* what process_text_into_chunks_with_embeddings returns for a hit: no chunk
\* (no text), or chunks with one embedding each
Processed(u, c, e) == [url |-> u, chunks |-> c, embeddings |-> e]

ProcessReturns(u) ==
    { Processed(u, <<>>, <<>>),
      Processed(u, <<"ta">>, <<"e1">>),
      Processed(u, <<"tb">>, <<"e2">>),
      Processed(u, <<"ta", "tb">>, <<"e1", "e2">>) }

\* a call main has made, or the return of an insert, in order
Call(name, i) == [call |-> name, i |-> i]

\* lines 49-50: refined_queries = process_query(query)
PassRefine ==
    /\ mode = "pass"
    /\ main.at = "refine"
    /\ \/ \E qs \in QueryLists :
            main' = [main EXCEPT !.at = "search", !.refined_queries = qs,
                                 !.log = Append(@, Call("process_query", 0))]
       \/ main' = [main EXCEPT !.at = "fatal",
                               !.log = Append(@, Call("process_query", 0))]
    /\ UNCHANGED <<mode, max_steps, name_norm, pc, step, history, context, oracle_calls,
                   responses, parsed, sql, gate, conn, conns_opened, db_log, fetched,
                   exc, tool_calls, result, arg, ops_done, conns_closed>>
    /\ UNCHANGED <<start_idx, chunks, store, pending, rows, store_before>>
    /\ UNCHANGED <<conversations, heap, threads, added>>

\* lines 54-56: results = search_web(refined_queries); without a refined query
\* nothing is searched
PassSearch ==
    /\ mode = "pass"
    /\ main.at = "search"
    /\ \/ \E r \in PassResults :
            /\ main.refined_queries = <<>> => r = <<>>
            /\ main' = [main EXCEPT !.at = "loop", !.results = r, !.i = 1,
                                    !.log = Append(@, Call("search_web", 0))]
       \/ /\ main.refined_queries # <<>>
          /\ main' = [main EXCEPT !.at = "fatal",
                                  !.log = Append(@, Call("search_web", 0))]
    /\ UNCHANGED <<mode, max_steps, name_norm, pc, step, history, context, oracle_calls,
                   responses, parsed, sql, gate, conn, conns_opened, db_log, fetched,
                   exc, tool_calls, result, arg, ops_done, conns_closed>>
    /\ UNCHANGED <<start_idx, chunks, store, pending, rows, store_before>>
    /\ UNCHANGED <<conversations, heap, threads, added>>

\* lines 62-64: the next hit is fetched, extracted, chunked and embedded;
\* without chunks the loop goes to the next hit
PassProcess ==
    /\ mode = "pass"
    /\ main.at = "loop"
    /\ main.i <= Len(main.results)
    /\ \/ \E p \in ProcessReturns(main.results[main.i].href) :
            main' = [main EXCEPT !.at = IF p.chunks # <<>> THEN "insert" ELSE "loop",
                                 !.i = IF p.chunks # <<>> THEN @ ELSE @ + 1,
                                 !.processed = p,
                                 !.log = Append(@, Call("process_text", main.i))]
       \/ main' = [main EXCEPT !.at = "fatal",
                               !.log = Append(@, Call("process_text", main.i))]
    /\ UNCHANGED <<mode, max_steps, name_norm, pc, step, history, context, oracle_calls,
                   responses, parsed, sql, gate, conn, conns_opened, db_log, fetched,
                   exc, tool_calls, result, arg, ops_done, conns_closed>>
    /\ UNCHANGED <<start_idx, chunks, store, pending, rows, store_before>>
    /\ UNCHANGED <<conversations, heap, threads, added>>

\* line 65: insert_embeddings_into_db(url, chunks, embeddings) is called
PassInsert ==
    /\ mode = "pass"
    /\ main.at = "insert"
    /\ pc = "idle"
    /\ arg' = InsertCall(main.processed.url, main.processed.chunks,
                         main.processed.embeddings, CHUNK_DIM)
    /\ pc' = "ins_assert"
    /\ store_before' = store
    /\ main' = [main EXCEPT !.at = "inserting",
                            !.log = Append(@, Call("insert_embeddings_into_db", main.i))]
    /\ UNCHANGED <<mode, max_steps, name_norm, step, history, context, oracle_calls,
                   responses, parsed, sql, gate, conn, conns_opened, db_log, fetched,
                   exc, tool_calls, result, ops_done, conns_closed>>
    /\ UNCHANGED <<start_idx, chunks, store, pending, rows>>
    /\ UNCHANGED <<conversations, heap, threads, added>>

\* line 65 returns: the loop goes to the next hit; or it raises, and nothing
\* in main catches the exception
PassInserted ==
    /\ mode = "pass"
    /\ main.at = "inserting"
    /\ pc \in {"returned", "raised"}
    /\ IF pc = "returned"
       THEN /\ main' = [main EXCEPT !.at = "loop", !.i = @ + 1,
                                    !.log = Append(@, Call("inserted", main.i))]
            /\ pc' = "idle"
            /\ exc' = NoExc
       ELSE /\ main' = [main EXCEPT !.at = "fatal"]
            /\ pc' = "fatal"
            /\ exc' = exc
    /\ arg' = NoArg
    /\ conn' = "none"
    /\ fetched' = "none"
    /\ ops_done' = ops_done + 1
    /\ UNCHANGED <<mode, max_steps, name_norm, step, history, context, oracle_calls,
                   responses, parsed, sql, gate, conns_opened, db_log,
                   tool_calls, result, conns_closed>>
    /\ UNCHANGED <<start_idx, chunks, store, pending, rows, store_before>>
    /\ UNCHANGED <<conversations, heap, threads, added>>

\* Variant of lines 62-71 in which the retrieval is called inside the loop,
\* after any hit.
PassRetrieveInsideLoop ==
    /\ mode = "pass"
    /\ main.at = "loop"
    /\ pc = "idle"
    /\ arg' = RetrieveCall(main.refined_queries, 5)
    /\ pc' = "ret_check"
    /\ store_before' = store
    /\ main' = [main EXCEPT !.at = "retrieving",
                            !.log = Append(@, Call("retrieve_top_k_chunks", 0))]
    /\ UNCHANGED <<mode, max_steps, name_norm, step, history, context, oracle_calls,
                   responses, parsed, sql, gate, conn, conns_opened, db_log, fetched,
                   exc, tool_calls, result, ops_done, conns_closed>>
    /\ UNCHANGED <<start_idx, chunks, store, pending, rows>>
    /\ UNCHANGED <<conversations, heap, threads, added>>

\* lines 68-71: after the loop, retrieve_top_k_chunks(query_strings, 5, model)
PassRetrieve ==
    /\ mode = "pass"
    /\ main.at = "loop"
    /\ main.i > Len(main.results)
    /\ pc = "idle"
    /\ arg' = RetrieveCall(main.refined_queries, 5)
    /\ pc' = "ret_check"
    /\ store_before' = store
    /\ main' = [main EXCEPT !.at = "retrieving",
                            !.log = Append(@, Call("retrieve_top_k_chunks", 0))]
    /\ UNCHANGED <<mode, max_steps, name_norm, step, history, context, oracle_calls,
                   responses, parsed, sql, gate, conn, conns_opened, db_log, fetched,
                   exc, tool_calls, result, ops_done, conns_closed>>
    /\ UNCHANGED <<start_idx, chunks, store, pending, rows>>
    /\ UNCHANGED <<conversations, heap, threads, added>>

\* line 71 returns top_k_chunks, or raises; the rest of the pass (lines 72-88)
\* touches neither the store nor the queries
PassRetrieved ==
    /\ mode = "pass"
    /\ main.at = "retrieving"
    /\ pc \in {"returned", "raised"}
    /\ IF pc = "returned"
       THEN /\ main' = [main EXCEPT !.at = "done"]
            /\ pc' = "done"
       ELSE /\ main' = [main EXCEPT !.at = "fatal"]
            /\ pc' = "fatal"
    /\ ops_done' = ops_done + 1
    /\ UNCHANGED <<mode, max_steps, name_norm, step, history, context, oracle_calls,
                   responses, parsed, sql, gate, conn, conns_opened, db_log, fetched,
                   exc, tool_calls, result, arg, conns_closed>>
    /\ UNCHANGED <<start_idx, chunks, store, pending, rows, store_before>>
    /\ UNCHANGED <<conversations, heap, threads, added>>

\* the table before the pass: empty, or with the rows of an earlier pass
PassStores ==
    { {}, { Row("u1", 0, "ta", "e1"), Row("u1", 1, "tb", "e2"), Row("u1", 2, "tb", "e1") } }

InitPass ==
    /\ mode = "pass"
    /\ pc = "idle"
    /\ main = [at |-> "refine", refined_queries |-> <<>>, results |-> <<>>, i |-> 0,
               processed |-> Processed("", <<>>, <<>>), log |-> <<>>]
    /\ store \in PassStores
    /\ pending = store
    /\ store_before = store
    /\ sql = <<>>
    /\ max_steps = 0
    /\ name_norm = "unset"
    /\ step = 0
    /\ history = <<>>
    /\ context = [history |-> <<>>, name_normalization |-> "unset"]
    /\ oracle_calls = 0
    /\ responses = <<>>
    /\ parsed = NoResponse
    /\ gate = "none"
    /\ conn = "none"
    /\ conns_opened = 0
    /\ db_log = <<>>
    /\ fetched = "none"
    /\ exc = NoExc
    /\ tool_calls = <<>>
    /\ result = NoResult
    /\ arg = NoArg
    /\ ops_done = 0
    /\ conns_closed = 0
    /\ start_idx = 0
    /\ chunks = <<>>
    /\ rows = <<>>
    /\ conversations = <<>>
    /\ heap = <<>>
    /\ threads = <<>>
    /\ added = <<>>

NextPass ==
    \/ PassRefine \/ PassSearch \/ PassProcess
    \/ PassInsert
    \/ InsertAssert \/ InsertConnect \/ InsertWrite \/ InsertExcept \/ InsertFinally
    \/ PassInserted
    \/ PassRetrieve
    \/ RetrieveCheck \/ RetrieveConnect \/ RetrieveProbes \/ RetrieveCount
    \/ RetrievePrimary \/ RetrieveFallback \/ RetrieveFinally
    \/ PassRetrieved

SpecPass == InitPass /\ [][NextPass]_vars

-----------------------------------------------------------------------------
(* The chat server (flask-app/app.py): the process-wide map of              *)
(* conversations, and request handlers that run one after the other or, as  *)
(* app.run(threaded=True) allows, at the same time. A list is an object on  *)
(* the heap; the map and the locals of a handler hold references to lists.  *)

ConvIds == {"c1", "c2"}
Threads == {1, 2}

\* line 44: len(history) > 20 and history[-20:]; line 54: history[-10:]
HistoryKept   == 20
ContextWindow == 10

\* s[-n:]
last_n(s, n) == IF Len(s) <= n THEN s ELSE SubSeq(s, Len(s) - n + 1, Len(s))

\* s[:-1]
all_but_last(s) == IF s = <<>> THEN <<>> ELSE SubSeq(s, 1, Len(s) - 1)

ChatMessage(role, content) == [role |-> role, content |-> content]

NoMessage == ChatMessage("none", 0)

\* lines 48-59: the question alone when there is no history; else a heading,
\* one line per message of history[-10:] and the question
format_context_prompt(hist, current_question) ==
    IF hist = <<>> THEN << [label |-> "question", content |-> current_question] >>
    ELSE << [label |-> "Previous conversation:", content |-> 0] >>
         \o [i \in 1..Len(last_n(hist, ContextWindow)) |->
               [label |-> IF last_n(hist, ContextWindow)[i].role = "user"
                          THEN "User" ELSE "Assistant",
                content |-> last_n(hist, ContextWindow)[i].content]]
         \o << [label |-> "Current question", content |-> current_question] >>

Idle == [pc |-> "idle", kind |-> "none", conv |-> "none", ret |-> "none",
         chat_history |-> 0, history |-> 0, msg |-> NoMessage, slice |-> <<>>,
         prompt |-> <<>>]

\* what leaves every variable of the other components as it is
chat_frame == <<mode, max_steps, name_norm, pc, step, history, context, oracle_calls,
                responses, parsed, sql, gate, conn, conns_opened, db_log, fetched, exc,
                tool_calls, result, arg, ops_done, conns_closed,
                start_idx, chunks, store, pending, rows, store_before, main>>

\* a request is handled by the first thread that is free; requests do not
\* overlap when the server is driven by one client at a time
MayStart(t) ==
    /\ threads[t].pc = "idle"
    /\ \A u \in Threads : u < t => threads[u].pc # "idle"
    /\ added.requests < MaxRequests
    /\ mode = "sequential" => \A u \in Threads : threads[u].pc = "idle"

\* lines 69-78: POST /chat with a message: conv_id = get_conversation_id();
\* history = get_conversation_history(conv_id) is entered
ChatRequest(t) ==
    /\ MayStart(t)
    /\ \E c \in ConvIds :
          threads' = [threads EXCEPT ![t] =
                        [Idle EXCEPT !.pc = "get_test", !.kind = "chat", !.conv = c,
                                     !.ret = "chat",
                                     !.msg = ChatMessage("user", added.count + 1)]]
    /\ added' = [added EXCEPT !.count = @ + 1, !.requests = @ + 1]
    /\ UNCHANGED <<conversations, heap>>
    /\ UNCHANGED chat_frame

\* line 34: if conv_id not in conversations
GetTest(t) ==
    /\ threads[t].pc = "get_test"
    /\ threads' = [threads EXCEPT ![t].pc =
                      IF threads[t].conv \in DOMAIN conversations
                      THEN "get_return" ELSE "get_create"]
    /\ UNCHANGED <<conversations, heap, added>>
    /\ UNCHANGED chat_frame

\* line 35: conversations[conv_id] = []
GetCreate(t) ==
    /\ threads[t].pc = "get_create"
    /\ heap' = Append(heap, <<>>)
    /\ conversations' = [c \in DOMAIN conversations \cup {threads[t].conv} |->
                           IF c = threads[t].conv THEN Len(heap) + 1
                           ELSE conversations[c]]
    /\ threads' = [threads EXCEPT ![t].pc = "get_return"]
    /\ UNCHANGED added
    /\ UNCHANGED chat_frame

\* line 36: return conversations[conv_id], to line 78 of chat or to line 41
\* of add_to_history
GetReturn(t) ==
    /\ threads[t].pc = "get_return"
    /\ threads' = [threads EXCEPT ![t] =
                      IF threads[t].ret = "chat"
                      THEN [@ EXCEPT !.chat_history = conversations[threads[t].conv],
                                     !.pc = "get_test", !.ret = "add"]
                      ELSE [@ EXCEPT !.history = conversations[threads[t].conv],
                                     !.pc = "append"]]
    /\ UNCHANGED <<conversations, heap, added>>
    /\ UNCHANGED chat_frame

\* line 42: history.append({"role": role, "content": content})
AppendMessage(t) ==
    /\ threads[t].pc = "append"
    /\ heap' = [heap EXCEPT ![threads[t].history] = Append(@, threads[t].msg)]
    /\ added' = [added EXCEPT !.log[threads[t].conv] = Append(@, threads[t].msg)]
    /\ threads' = [threads EXCEPT ![t].pc = "len_check"]
    /\ UNCHANGED conversations
    /\ UNCHANGED chat_frame

\* where add_to_history returns to: line 84 of chat after the user's message,
\* the end of generate after the assistant's
AfterAdd(t) == IF threads[t].msg.role = "user" THEN "format" ELSE "done"

\* line 44: if len(history) > 20
LenCheck(t) ==
    /\ threads[t].pc = "len_check"
    /\ threads' = [threads EXCEPT ![t].pc =
                      IF Len(heap[threads[t].history]) > HistoryKept
                      THEN "slice" ELSE AfterAdd(t)]
    /\ UNCHANGED <<conversations, heap, added>>
    /\ UNCHANGED chat_frame

\* line 45, right-hand side: history[-20:], a new list
Slice(t) ==
    /\ threads[t].pc = "slice"
    /\ threads' = [threads EXCEPT ![t].slice = last_n(heap[threads[t].history], HistoryKept),
                                  ![t].pc = "rebind"]
    /\ UNCHANGED <<conversations, heap, added>>
    /\ UNCHANGED chat_frame

\* Variant of line 45 that truncates the list in place and keeps one message
\* more: del history[:-21].
RebindInPlace(t) ==
    /\ threads[t].pc = "rebind"
    /\ heap' = [heap EXCEPT ![threads[t].history] = last_n(@, HistoryKept + 1)]
    /\ threads' = [threads EXCEPT ![t].slice = <<>>, ![t].pc = AfterAdd(t)]
    /\ UNCHANGED <<conversations, added>>
    /\ UNCHANGED chat_frame

\* line 45, the assignment: conversations[conv_id] = <the new list>
Rebind(t) ==
    /\ threads[t].pc = "rebind"
    /\ heap' = Append(heap, threads[t].slice)
    /\ conversations' = [conversations EXCEPT ![threads[t].conv] = Len(heap) + 1]
    /\ threads' = [threads EXCEPT ![t].slice = <<>>, ![t].pc = AfterAdd(t)]
    /\ UNCHANGED added
    /\ UNCHANGED chat_frame

\* line 84: contextual_prompt = format_context_prompt(history[:-1], message),
\* history being the list chat got at line 78
FormatContext(t) ==
    /\ threads[t].pc = "format"
    /\ threads' = [threads EXCEPT
                      ![t].prompt = format_context_prompt(
                                        all_but_last(heap[threads[t].chat_history]),
                                        threads[t].msg.content),
                      ![t].pc = "agent"]
    /\ UNCHANGED <<conversations, heap, added>>
    /\ UNCHANGED chat_frame

\* lines 88-119: run_unified_agent returns and add_to_history(conv_id,
\* "assistant", final_answer) is entered, or an exception becomes an error event
RunAgent(t) ==
    /\ threads[t].pc = "agent"
    /\ \/ /\ threads' = [threads EXCEPT
                            ![t].msg = ChatMessage("assistant", added.count + 1),
                            ![t].pc = "get_test"]
          /\ added' = [added EXCEPT !.count = @ + 1]
       \/ /\ threads' = [threads EXCEPT ![t].pc = "done"]
          /\ added' = added
    /\ UNCHANGED <<conversations, heap>>
    /\ UNCHANGED chat_frame

\* lines 131-137: POST /clear: if conv_id in conversations:
\* conversations[conv_id] = []
ClearRequest(t) ==
    /\ MayStart(t)
    /\ \A u \in Threads : threads[u].pc = "idle"
    /\ \E c \in ConvIds :
          /\ IF c \in DOMAIN conversations
             THEN /\ heap' = Append(heap, <<>>)
                  /\ conversations' = [conversations EXCEPT ![c] = Len(heap) + 1]
             ELSE UNCHANGED <<conversations, heap>>
          /\ added' = [added EXCEPT !.log[c] = <<>>, !.requests = @ + 1]
          /\ threads' = [threads EXCEPT ![t] = [Idle EXCEPT !.pc = "done", !.kind = "clear",
                                                            !.conv = c]]
    /\ UNCHANGED chat_frame

\* the response has been sent: the handler and its locals are gone
EndRequest(t) ==
    /\ threads[t].pc = "done"
    /\ threads' = [threads EXCEPT ![t] = Idle]
    /\ UNCHANGED <<conversations, heap, added>>
    /\ UNCHANGED chat_frame

\* the conversations a server may hold when the requests begin: none, or c1
\* with the messages of earlier requests
StoredBefore == {0, 19, 20}

EarlierMessages(k) ==
    [i \in 1..k |-> ChatMessage(IF i % 2 = 1 THEN "user" ELSE "assistant", i)]

InitChat ==
    /\ mode \in {"sequential", "threaded"}
    /\ \E k \in StoredBefore :
          /\ conversations = IF k = 0 THEN <<>> ELSE [c \in {"c1"} |-> 1]
          /\ heap = IF k = 0 THEN <<>> ELSE << EarlierMessages(k) >>
          /\ added = [count |-> k, requests |-> 0,
                      log |-> [c \in ConvIds |->
                                 IF c = "c1" THEN EarlierMessages(k) ELSE <<>>]]
    /\ threads = [t \in Threads |-> Idle]
    /\ main = NoMain
    /\ pc = "idle"
    /\ sql = <<>>
    /\ max_steps = 0
    /\ name_norm = "unset"
    /\ step = 0
    /\ history = <<>>
    /\ context = [history |-> <<>>, name_normalization |-> "unset"]
    /\ oracle_calls = 0
    /\ responses = <<>>
    /\ parsed = NoResponse
    /\ gate = "none"
    /\ conn = "none"
    /\ conns_opened = 0
    /\ db_log = <<>>
    /\ fetched = "none"
    /\ exc = NoExc
    /\ tool_calls = <<>>
    /\ result = NoResult
    /\ arg = NoArg
    /\ ops_done = 0
    /\ conns_closed = 0
    /\ start_idx = 0
    /\ chunks = <<>>
    /\ store = {}
    /\ pending = {}
    /\ rows = <<>>
    /\ store_before = {}

NextChat ==
    \E t \in Threads :
        \/ ChatRequest(t) \/ GetTest(t) \/ GetCreate(t) \/ GetReturn(t)
        \/ AppendMessage(t) \/ LenCheck(t) \/ Slice(t) \/ Rebind(t)
        \/ FormatContext(t) \/ RunAgent(t)
        \/ ClearRequest(t) \/ EndRequest(t)

SpecChat == InitChat /\ [][NextChat]_vars

-----------------------------------------------------------------------------
(* Properties of the SQL safety gate (checked under SpecGate) *)

\* the gate has given its verdict on the argument of the current execute_sql call
Validated == gate \in {"accepted", "rejected"}

\* C1: every SQL string that contains the statement separator ';',
\* anywhere, is rejected by validate_sql_readonly, and no string containing a
\* separator is handed to the database.
C1_SeparatorRejected ==
    /\ (Validated /\ contains(sql, <<";">>)) => gate = "rejected"
    /\ \A i \in DOMAIN db_log : ~contains(db_log[i], <<";">>)

\* q in upper case
upper_table ==
    [c \in {LowerChars[i] : i \in DOMAIN LowerChars} |->
        UpperChars[CHOOSE i \in DOMAIN LowerChars : LowerChars[i] = c]]

upper_char(c) == IF c \in DOMAIN upper_table THEN upper_table[c] ELSE c

upper(s) == [i \in 1..Len(s) |-> upper_char(s[i])]

\* the trimmed, case-folded form of q begins with SELECT or WITH
BeginsWithSelectOrWith(q) ==
    \/ startswith(lower(strip(q)), <<"s", "e", "l", "e", "c", "t">>)
    \/ startswith(lower(strip(q)), <<"w", "i", "t", "h">>)

\* q with whitespace added or removed at its ends, or its letter case changed
CaseAndSpaceVariants(q) ==
    { upper(q), lower(q), strip(q), <<" ", "\n">> \o q, q \o <<"\t">>,
      <<"\n">> \o upper(q) \o <<" ", " ">> }

\* C2: a string whose trimmed, case-folded form does not begin with SELECT or
\* WITH is rejected, and the verdict on a string is the verdict on each of its
\* variants in leading/trailing whitespace and letter case.
C2_NonSelectRejected ==
    Validated =>
        /\ ~BeginsWithSelectOrWith(sql) => gate = "rejected"
        /\ \A v \in CaseAndSpaceVariants(sql) :
              validate_sql_readonly(v).ok = (gate = "accepted")

\* C2 witness: a string with leading whitespace and upper-case letters that does
\* not begin with SELECT/WITH has been rejected for that reason.
C2_Witness ==
    /\ gate = "rejected"
    /\ exc.msg = MustBeSelect
    /\ sql # strip(sql)
    /\ sql # lower(sql)
    /\ pc = "raised"

\* the twelve deny-listed verbs
DenyListedVerbs ==
    { <<"I", "N", "S", "E", "R", "T">>, <<"U", "P", "D", "A", "T", "E">>,
      <<"D", "E", "L", "E", "T", "E">>, <<"A", "L", "T", "E", "R">>,
      <<"D", "R", "O", "P">>, <<"T", "R", "U", "N", "C", "A", "T", "E">>,
      <<"C", "R", "E", "A", "T", "E">>, <<"G", "R", "A", "N", "T">>,
      <<"R", "E", "V", "O", "K", "E">>, <<"M", "E", "R", "G", "E">>,
      <<"C", "A", "L", "L">>, <<"E", "X", "E", "C", "U", "T", "E">> }

\* C3: a string that contains one of the twelve deny-listed verbs as a
\* case-insensitive substring (inside an identifier or a string literal too)
\* is rejected.
C3_DenyListSubstring ==
    (Validated /\ \E verb \in DenyListedVerbs : contains(upper(sql), verb))
        => gate = "rejected"

\* C3 witness: a SELECT whose only deny-listed verb is inside the identifier
\* created_at has been rejected for the keyword "create".
C3_Witness ==
    /\ gate = "rejected"
    /\ exc.msg = BannedKeyword
    /\ exc.kw = 7
    /\ strip(sql) = <<"S", "E", "L", "E", "C", "T", " ",
                      "c", "r", "e", "a", "t", "e", "d", "_", "a", "t">>

-----------------------------------------------------------------------------
(* Properties of the two loops (checked under Spec) *)

\* the entry point has returned or raised
Terminated == pc \in {"done", "fatal"}

\* position of a control location inside one loop iteration, counted from its end
Rank ==
    CASE pc = "normalize" -> 9
      [] pc = "dispatch" -> 8
      [] pc = "validate" -> 7
      [] pc = "connect" -> 6
      [] pc = "execute" -> 5
      [] pc = "close" -> 4
      [] pc \in {"call_sql_agent", "call_web_agent"} -> 4
      [] pc \in {"returned", "raised"} -> 3
      [] pc = "loop" -> 2
      [] OTHER -> 0

\* the number of steps the run can still take is at most Measure
Measure == (max_steps - step) * 10 + Rank

\* the steps of Next other than the gate's verdict, which is total: at
\* "validate" the string is either accepted or rejected
StepPastGate ==
    \/ Connect \/ Execute \/ Close
    \/ Normalize \/ SqlOracleCall \/ SqlDispatch
    \/ SqlAppendObservation \/ SqlAppendError \/ SqlExhausted
    \/ run_unified_agent

\* every run ends: a run that has not ended can take a step, and every step
\* lowers Measure, which is never negative
AlwaysEnds ==
    /\ [](Measure >= 0)
    /\ [](Terminated \/ pc = "validate" \/ ENABLED StepPastGate)
    /\ [][Measure' < Measure]_vars

\* C4: every statement handed to the database was accepted by the gate in the
\* same execute_sql call (the gate verdict is reset at each call), a connection
\* is opened only after acceptance, and a rejected string opens no connection
\* and is never executed.
C4_GateOnlyPath ==
    /\ [](gate = "rejected" => conn = "none")
    /\ [][/\ db_log' # db_log =>
               /\ gate = "accepted"
               /\ validate_sql_readonly(sql).ok
               /\ conn = "open"
               /\ db_log' = Append(db_log, sql)
          /\ conns_opened' # conns_opened =>
               /\ gate = "accepted"
               /\ validate_sql_readonly(sql).ok
          /\ gate = "rejected" =>
               /\ db_log' = db_log
               /\ conns_opened' = conns_opened]_vars

\* C4 witness: in a run of the SQL loop one statement has been executed and a
\* later one has been rejected by the gate without a connection.
C4_Witness ==
    /\ mode = "sql"
    /\ Len(db_log) = 1
    /\ gate = "rejected"
    /\ pc = "raised"
    /\ conns_opened = 1
    /\ conn = "none"

\* a CALL_SQL response with a non-empty sql string
WellFormedCallSql(r) ==
    /\ r.kind = "object"
    /\ r.action = JStr("CALL_SQL")
    /\ r.sql.t = "str"
    /\ r.sql.v # <<>>

ToolAction(r) ==
    /\ r.kind = "object"
    /\ r.action \in {JStr("CALL_SQL_AGENT"), JStr("CALL_WEB_AGENT")}

\* what C6 promises of a run whose responses all satisfy P
StopsAtCeiling(P(_)) ==
    (mode = "unified" /\ \A i \in DOMAIN responses : P(responses[i])) =>
        /\ oracle_calls <= max_steps
        /\ pc = "fatal" => exc.msg = TransportError
        /\ pc = "done" =>
             /\ Len(tool_calls) = max_steps
             /\ result.final_answer = UNIFIED_INCONCLUSIVE
             /\ Len(result.history) = max_steps

\* C6: when every oracle response is a CALL_SQL_AGENT or
\* CALL_WEB_AGENT action, run_unified_agent with ceiling N raises nothing,
\* invokes exactly N sub-agents and returns its canned answer with a history of
\* exactly N entries.
C6_AsStated == StopsAtCeiling(ToolAction)

\* a CALL_SQL_AGENT or CALL_WEB_AGENT response whose question is a string or absent
ToolActionWithQuestion(r) ==
    /\ ToolAction(r)
    /\ r.question.t \in {"str", "absent"}

\* What does hold of the orchestrator loop: the promise of C6 for responses
\* whose question field is a string or is absent (a null question raises
\* TypeError at lines 130/150, where the progress line slices it); and the run
\* always ends.
C6_UnifiedLoopStopsAtCeiling ==
    /\ []StopsAtCeiling(ToolActionWithQuestion)
    /\ AlwaysEnds

\* the case of the restricted statement: a run with ceiling 3 has ended on the canned answer after three
\* sub-agent invocations, one of which failed and one of which had no question.
C6_Witness ==
    /\ mode = "unified"
    /\ pc = "done"
    /\ max_steps = 3
    /\ Len(tool_calls) = 3
    /\ result.final_answer = UNIFIED_INCONCLUSIVE
    /\ \E i \in DOMAIN history : ~history[i].result.success
    /\ \E i \in DOMAIN responses : responses[i].question = JAbsent
    /\ \E i \in DOMAIN history : history[i].action = "CALL_WEB_AGENT"

\* C7: the i-th history entry carries step index i (so indices start at 1 and
\* increase strictly in append order) and was produced by the i-th oracle call.
C7_StepIndices ==
    /\ Len(history) <= Len(responses)
    /\ \A i \in DOMAIN history :
          /\ history[i].step = i
          /\ responses[i].kind = "object"
          /\ history[i].action = responses[i].action.v
          /\ mode = "sql" => history[i].sql = responses[i].sql.v
          /\ mode = "unified" =>
                history[i].question = IF responses[i].question = JAbsent
                                      THEN Question ELSE responses[i].question.v
    /\ \A i, j \in DOMAIN history : i < j => history[i].step < history[j].step

\* C7 witness: the SQL loop holds three entries, an error after an observation.
C7_Witness ==
    /\ mode = "sql"
    /\ Len(history) = 3
    /\ "observation" \in DOMAIN history[1]
    /\ "error" \in DOMAIN history[2]
    /\ history[3].sql # history[2].sql

\* C8: when execute_sql raises (gate rejection, connection or database error,
\* or a sql that is not a string),
\* run_sql_agent raises nothing and appends exactly one entry for the step with
\* the attempted sql and the error message and no observation; it goes on to
\* the next step or to the canned answer, and each oracle call carries the
\* whole history, that entry included.
C8_ErrorFedBack ==
    /\ []((mode = "sql" /\ pc = "raised") =>
             exc.msg \in {MustBeSelect, BannedKeyword, ConnectError, DbError,
                          AttributeError})
    /\ [][(mode = "sql" /\ pc = "raised") =>
             /\ pc' = "loop"
             /\ Len(history') = Len(history) + 1
             /\ SubSeq(history', 1, Len(history)) = history
             /\ history'[Len(history')].step = step
             /\ history'[Len(history')].sql = sql
             /\ DOMAIN history'[Len(history')] = {"step", "action", "sql", "error"}
             /\ history'[Len(history')].error.msg = exc.msg]_vars
    /\ [][(mode = "sql" /\ pc = "loop") =>
             \/ /\ step < max_steps
                /\ step' = step + 1
                /\ oracle_calls' = oracle_calls + 1
                /\ context'.history = history
                /\ history' = history
             \/ /\ step = max_steps
                /\ pc' = "done"
                /\ result'.history = history]_vars

\* C8 witness: the oracle has been called at step 2 with a context whose
\* history holds the gate's rejection of the sql of step 1.
C8_Witness ==
    /\ mode = "sql"
    /\ pc = "dispatch"
    /\ step = 2
    /\ Len(context.history) = 1
    /\ context.history[1].sql = sql_drop
    /\ "error" \in DOMAIN context.history[1]
    /\ context.history[1].error.msg = MustBeSelect

\* a FINISH response
FinishResponse(r) == r.kind = "object" /\ r.action = JStr("FINISH")

\* the final_answer of r is missing, null or empty after trimming
AnswerMissingOrBlank(r) ==
    \/ r.final_answer.t # "str"
    \/ \A i \in DOMAIN r.final_answer.v : r.final_answer.v[i] \in {" ", "\t", "\n", "\r"}

\* C9: in the SQL loop a FINISH whose answer is missing or empty after trimming
\* raises and returns nothing; a FINISH with a non-empty answer at step n
\* returns the trimmed answer with the n-1 entries of the history, and nothing
\* happens after the return: no oracle call, no SQL execution.
C9_SqlFinish ==
    /\ [][(mode = "sql" /\ pc = "dispatch" /\ FinishResponse(parsed)) =>
             IF AnswerMissingOrBlank(parsed)
             THEN /\ pc' = "fatal"
                  /\ exc'.msg \in {MissingAnswer, AttributeError}
                  /\ result' = NoResult
             ELSE /\ pc' = "done"
                  /\ result'.final_answer = strip(parsed.final_answer.v)
                  /\ result'.final_answer \in {<<"4", "2">>, <<"n", "o">>}
                  /\ result'.history = history
                  /\ Len(history) = step - 1
                  /\ UNCHANGED <<history, oracle_calls, db_log, conns_opened, exc>>]_vars
    /\ [][~Terminated]_vars

\* C9 witness: the SQL loop has returned the answer "42", trimmed from " 42 ",
\* at step 2.
C9_Witness ==
    /\ mode = "sql"
    /\ pc = "done"
    /\ step = 2
    /\ parsed.final_answer = JStr(ans_42)
    /\ result.final_answer = <<"4", "2">>
    /\ Len(result.history) = 1

\* the action tags each loop knows
Alphabet ==
    IF mode = "sql"
    THEN {JStr("FINISH"), JStr("CALL_SQL")}
    ELSE {JStr("FINISH"), JStr("CALL_SQL_AGENT"), JStr("CALL_WEB_AGENT")}

\* C10: in both loops a response whose action tag is missing, null or outside
\* the loop's alphabet raises the unexpected-action error carrying the step at
\* which it was read; nothing is returned, the history is left alone, no SQL is
\* executed and no sub-agent is invoked for that step or after it.
C10_UnknownActionFatal ==
    /\ [][(mode \in {"sql", "unified"} /\ pc = "dispatch" /\ parsed.kind = "object"
           /\ parsed.action \notin Alphabet) =>
             /\ pc' = "fatal"
             /\ exc'.msg = UnexpectedAction
             /\ exc'.step = step
             /\ step = oracle_calls
             /\ result' = NoResult
             /\ UNCHANGED <<history, db_log, conns_opened, tool_calls, oracle_calls>>]_vars
    /\ [][pc = "fatal" => UNCHANGED <<db_log, conns_opened, tool_calls, result>>]_vars
    /\ [](pc = "fatal" => result = NoResult)

\* C10 witness: the orchestrator has raised at step 2 on a response without
\* action tag, after one sub-agent invocation.
C10_Witness ==
    /\ mode = "unified"
    /\ pc = "fatal"
    /\ step = 2
    /\ parsed.kind = "object"
    /\ parsed.action = JAbsent
    /\ exc.msg = UnexpectedAction
    /\ exc.step = 2
    /\ Len(tool_calls) = 1

-----------------------------------------------------------------------------
(* Properties of the sub-agent boundary and of fatal errors (checked under Spec) *)

\* what the try block of the i-th sub-agent invocation ended with
SubAgentExc(i) ==
    IF tool_calls[i].tool = "sql"
    THEN run_and_format(tool_calls[i].outcome)
    ELSE tool_calls[i].outcome

\* an exception was raised inside the i-th sub-agent invocation
SubAgentRaised(i) == SubAgentExc(i).do = "raise"

\* C11: an exception raised inside a sub-agent run comes back from
\* call_sql_agent / call_web_agent as a result with success false, an empty
\* answer and a non-null error; in every result success is true exactly when
\* error is null; the orchestrator raises nothing at the invocation, appends the
\* result to its history and goes on, and a FINISH with an answer at a later
\* step ends the run with that answer and the whole history.
C11_SubAgentFailuresContained ==
    /\ [](mode = "unified" =>
            /\ Len(history) = Len(tool_calls)
            /\ \A i \in DOMAIN tool_calls :
                  /\ SubAgentRaised(i) =>
                        /\ history[i].result.success = FALSE
                        /\ history[i].result.answer = <<>>
                        /\ history[i].result.error # JNull
                        /\ history[i].result.error.v = SubAgentExc(i).exc.msg
                  /\ ~SubAgentRaised(i) =>
                        /\ history[i].result.success = TRUE
                        /\ history[i].result.answer \in {ans_no, SQL_INCONCLUSIVE}
                  /\ history[i].result.success <=> (history[i].result.error = JNull))
    /\ [][(pc \in {"call_sql_agent", "call_web_agent"}) =>
             /\ pc' = "loop"
             /\ exc' = NoExc
             /\ Len(tool_calls') = Len(tool_calls) + 1
             /\ Len(history') = Len(history) + 1
             /\ SubSeq(history', 1, Len(history)) = history
             /\ history'[Len(history')].step = step]_vars
    /\ [][(/\ mode = "unified"
           /\ pc = "dispatch"
           /\ \E i \in DOMAIN tool_calls : SubAgentRaised(i)
           /\ parsed.kind = "object"
           /\ parsed.action = JStr("FINISH")
           /\ parsed.final_answer.t = "str") =>
             /\ pc' = "done"
             /\ result'.final_answer = strip(parsed.final_answer.v)
             /\ result'.history = history]_vars

\* C11 witness: the orchestrator has returned the answer of a FINISH at step 3
\* after a SQL sub-agent run that raised on invalid JSON and a web sub-agent run
\* that raised in the pipeline; both results are in the returned history.
C11_Witness ==
    /\ mode = "unified"
    /\ pc = "done"
    /\ step = 3
    /\ result.final_answer = ans_no
    /\ Len(result.history) = 2
    /\ tool_calls[1].tool = "sql"
    /\ tool_calls[1].outcome.exc.msg = InvalidJson
    /\ result.history[1].result.error = JStr(InvalidJson)
    /\ tool_calls[2].tool = "web"
    /\ ~result.history[2].result.success

\* the errors raised when json.loads rejects the extracted text
ParseFailures == { InvalidJson, NormInvalidJson, RefineInvalidJson }

\* the call site has read an oracle response that is not valid JSON
ReadBadJson ==
    \/ /\ mode \in {"sql", "unified"}
       /\ responses # <<>>
       /\ responses[Len(responses)].kind = "badjson"
       /\ pc # "dispatch"
    \/ /\ mode \in {"normalize", "refine"}
       /\ arg.kind = "badjson"
       /\ pc # "call"
       /\ exc.msg # TransportError

\* C12: at every call site that parses extracted oracle text as JSON (SQL loop,
\* orchestrator loop, name normaliser, query refiner) a parse failure is fatal,
\* and the error raised carries both the raw oracle text and the extracted text.
C12_ParseFailureCarriesBoth ==
    /\ ReadBadJson => (pc = "fatal" /\ exc.msg \in ParseFailures)
    /\ (pc = "fatal" /\ exc.msg \in ParseFailures) => {"raw", "clean"} \subseteq exc.text

\* the latest oracle response of the running loop, once it has been acted upon
Acted(r) ==
    /\ responses # <<>>
    /\ r = responses[Len(responses)]
    /\ pc # "dispatch"

\* an orchestrator action without a field it needs: a sub-agent invocation
\* without question, a FINISH without a non-empty (after trim) answer
MissingField(r) ==
    /\ r.kind = "object"
    /\ \/ ToolAction(r) /\ r.question = JAbsent
       \/ FinishResponse(r) /\ AnswerMissingOrBlank(r)

\* C13: in the orchestrator loop an action with a missing field raises an
\* error: no sub-agent is invoked with a substituted question and no empty
\* final answer is returned.
C13_MissingFieldFatal ==
    mode = "unified" =>
        /\ \A r \in UnifiedResponses : (Acted(r) /\ MissingField(r)) =>
              /\ pc = "fatal"
              /\ result = NoResult
              /\ Len(tool_calls) < Len(responses)
        /\ pc = "done" => result.final_answer # <<>>

\* an oracle response on which the SQL loop raises one of its four fatal
\* errors: invalid JSON, unknown action, CALL_SQL without sql, FINISH without answer
ListedFatal(r) ==
    \/ r.kind = "badjson"
    \/ /\ r.kind = "object"
       /\ \/ r.action \notin {JStr("FINISH"), JStr("CALL_SQL")}
          \/ r.action = JStr("CALL_SQL") /\ ~truthy(r.sql)
          \/ FinishResponse(r) /\ AnswerMissingOrBlank(r)

\* C14: every fatal error of the SQL loop (invalid JSON, unknown action,
\* CALL_SQL without sql, FINISH without answer) carries the step index at which
\* it occurred and the oracle's text of that step.
C14_FatalCarriesStepAndText ==
    \A r \in SqlResponses :
        (mode = "sql" /\ Acted(r) /\ ListedFatal(r) /\ exc.msg # TransportError) =>
            /\ pc = "fatal"
            /\ step = Len(responses)
            /\ exc.step = step
            /\ exc.text # {}

-----------------------------------------------------------------------------
(* Properties of the name normaliser (checked under SpecFn) *)

\* the normaliser has read the oracle's response and has returned or raised
NormaliserEnded ==
    /\ mode = "normalize"
    /\ pc \in {"done", "fatal"}
    /\ exc.msg # TransportError

\* the response is a list-of-mentions object: its "players" is a list of objects
ListOfMentions(r) ==
    /\ r.kind = "object"
    /\ r.players.t = "list"
    /\ \A i \in DOMAIN r.players.v : r.players.v[i].kind = "object"

\* the response is a legacy single-mention object: an object without a
\* "players" list
LegacyMention(r) ==
    /\ r.kind = "object"
    /\ r.players.t # "list"

\* a NameMention record: exactly the four fields, with their types
IsNameMention(m) ==
    /\ DOMAIN m = {"original", "normalized", "confidence", "reason"}
    /\ m.original.t \in {"str", "null"}
    /\ m.normalized.t \in {"str", "null"}
    /\ m.confidence \in {"high", "medium", "low"}
    /\ m.reason.t = "str"

\* C15: a list-of-mentions object and a legacy single-mention object both yield
\* {"players": [mention, ...]} whose mentions have exactly the fields original,
\* normalized, confidence, reason; only a response matching neither shape is
\* fatal, and the legacy shape is never returned.
C15_OneCanonicalShape ==
    NormaliserEnded =>
        /\ (ListOfMentions(arg) \/ LegacyMention(arg)) => pc = "done"
        /\ pc = "done" =>
              /\ DOMAIN result = {"players"}
              /\ \A i \in DOMAIN result.players : IsNameMention(result.players[i])

\* C16: a list-of-mentions response with n >= 0 entries gives exactly n
\* records; an empty mention list gives zero records.
C16_ZeroOrMoreMentions ==
    (NormaliserEnded /\ pc = "done" /\ ListOfMentions(arg)) =>
        Len(result.players) = Len(arg.players.v)

\* the mention objects the response holds, in order
MentionsOf(r) == IF r.players.t = "list" THEN r.players.v ELSE <<r>>

\* C17: every returned mention has confidence high, medium or low; a
\* confidence outside the enum or missing becomes "low", one inside it is
\* returned unchanged.
C17_ConfidenceClamped ==
    (NormaliserEnded /\ (ListOfMentions(arg) \/ LegacyMention(arg))) =>
        /\ pc = "done"
        /\ \A i \in DOMAIN result.players :
              result.players[i].confidence \in {"high", "medium", "low"}
        /\ \A i \in DOMAIN MentionsOf(arg) :
              LET c == MentionsOf(arg)[i].confidence
              IN  result.players[i].confidence =
                     IF c.t = "str" /\ c.v \in {"high", "medium", "low"} THEN c.v ELSE "low"

-----------------------------------------------------------------------------
(* Properties of the JSON extractor (checked under SpecFn) *)

Extracted == mode = "extract" /\ pc = "done"

braced(t) == startswith(t, open_br) /\ endswith(t, close_br)

\* the interiors of the fenced blocks of s from position from on, left to
\* right: an opening fence, the text up to the next fence, and so on after it
RECURSIVE FencedInteriors(_, _)
FencedInteriors(s, from) ==
    LET opens == {i \in FenceStarts(s) : i >= from}
    IN  IF opens = {} THEN {}
        ELSE LET i      == CHOOSE m \in opens : \A n \in opens : m <= n
                 closes == {j \in FenceStarts(s) : j >= i + 3}
             IN  IF closes = {} THEN {}
                 ELSE LET j == CHOOSE m \in closes : \A n \in closes : m <= n
                      IN  {strip(slice(s, group_start(s, i), j - 1))}
                              \cup FencedInteriors(s, j + 3)

\* the first-brace-to-last-brace span of s, when a "{" comes before a "}"
HasSpan(s) == \E i, j \in 1..Len(s) : i < j /\ s[i] = "{" /\ s[j] = "}"
Span(s) ==
    LET i == CHOOSE m \in 1..Len(s) : s[m] = "{" /\ \A n \in 1..(m - 1) : s[n] # "{"
        j == CHOOSE m \in 1..Len(s) : s[m] = "}" /\ \A n \in (m + 1)..Len(s) : s[n] # "}"
    IN  strip(SubSeq(s, i, j))

\* C18: the extractor applies four cases in order to the trimmed text:
\* (a) a text that is one {...} is returned as it is; (b) otherwise, if a
\* fenced block's trimmed interior is {...}, that interior is returned;
\* (c) otherwise, if a "{" comes before a "}", the span from the first "{" to
\* the last "}" is returned; (d) otherwise the trimmed text is returned.
C18_FourCasesInOrder ==
    Extracted =>
        LET s      == strip(arg.text)
            blocks == {b \in FencedInteriors(s, 1) : braced(b)}
        IN  IF braced(s) THEN result.text = s
            ELSE IF blocks # {} THEN result.text \in blocks
            ELSE IF HasSpan(s) THEN result.text = Span(s)
            ELSE result.text = s

\* The same with case (b) read of the first fenced block only.
C18_FirstBlockOnly ==
    Extracted =>
        LET s      == strip(arg.text)
            opens  == FenceStarts(s)
            first  == CHOOSE m \in opens : \A n \in opens : m <= n
            closes == {j \in opens : j >= first + 3}
            close  == CHOOSE m \in closes : \A n \in closes : m <= n
            inner  == strip(slice(s, group_start(s, first), close - 1))
        IN  IF braced(s) THEN result.text = s
            ELSE IF opens # {} /\ closes # {} /\ braced(inner) THEN result.text = inner
            ELSE IF HasSpan(s) THEN result.text = Span(s)
            ELSE result.text = s

\* the four texts of the description give what it says
C18_Examples ==
    Extracted =>
        /\ arg.text = text_object => result.text = text_object
        /\ arg.text = text_fenced => result.text = text_object
        /\ arg.text = text_prose  => result.text = text_object
        /\ arg.text = text_plain  => result.text = text_plain

-----------------------------------------------------------------------------
(* Properties of the web search (checked under SpecFn) *)

Searched == mode = "search" /\ pc = "done"

\* the places of the hits in the result sets: query q, rank k
Places(lists) == {<<q, k>> : q \in 1..MaxQueries, k \in 1..MaxHits} \cap
                 {p \in (1..Len(lists)) \X (1..MaxHits) : p[2] <= Len(lists[p[1]])}

Before(p, q) == p[1] < q[1] \/ (p[1] = q[1] /\ p[2] <= q[2])

\* the first place at which hit r occurs
FirstPlace(lists, r) ==
    CHOOSE p \in Places(lists) :
        /\ lists[p[1]][p[2]] = r
        /\ \A q \in Places(lists) : lists[q[1]][q[2]] = r => Before(p, q)

\* C20: search_web returns the hits of all refined queries in query order
\* without duplicates by full record equality: no two returned records are
\* equal, every distinct hit is returned (exactly once), the records are
\* ordered by their first occurrence, and two hits that share a url but differ
\* in title or snippet are both returned.
C20_DedupeByFullEquality ==
    Searched =>
        LET lists == arg.lists
            out   == result.hits
            given == {lists[p[1]][p[2]] : p \in Places(lists)}
        IN  /\ \A i, j \in 1..Len(out) : i # j => out[i] # out[j]
            /\ {out[i] : i \in 1..Len(out)} = given
            /\ \A i, j \in 1..Len(out) :
                   i < j => /\ Before(FirstPlace(lists, out[i]), FirstPlace(lists, out[j]))
                            /\ FirstPlace(lists, out[i]) # FirstPlace(lists, out[j])
            /\ \A a, b \in given :
                   (a.href = b.href /\ (a.title # b.title \/ a.body # b.body)) =>
                       \E i, j \in 1..Len(out) : i # j /\ out[i] = a /\ out[j] = b

\* a search whose second query repeats a hit of the first and adds one of the
\* same url with another title
C20_Witness ==
    /\ Searched
    /\ arg.lists = << <<Hit("u1", "t1", "b1"), Hit("u1", "t1", "b2")>>,
                      <<Hit("u1", "t2", "b1"), Hit("u1", "t1", "b1")>> >>
    /\ result.hits = <<Hit("u1", "t1", "b1"), Hit("u1", "t1", "b2"), Hit("u1", "t2", "b1")>>

-----------------------------------------------------------------------------
(* Properties of the database connections (checked under SpecDb) *)

OperationExited == pc \in {"returned", "raised"}

\* C19: connections are scoped per operation and released on every exit
\* path: when execute_sql, insert_embeddings_into_db or retrieve_top_k_chunks
\* exits, by return, early return or exception, the connection it opened is
\* closed, so that after any sequence of these operations every connection
\* opened has been closed and none is open.
C19_ConnectionsReleased ==
    /\ OperationExited => (conn # "open" /\ conns_closed = conns_opened)
    /\ pc = "idle" => (conn = "none" /\ conns_closed = conns_opened)
    /\ conns_opened - conns_closed = (IF conn = "open" THEN 1 ELSE 0)

\* the last of MaxOps operations, each of which opened a connection, exits by
\* an exception of the database
C19_Witness ==
    /\ pc = "raised"
    /\ exc.msg = DbError
    /\ conn = "closed"
    /\ ops_done = MaxOps - 1
    /\ conns_opened = MaxOps
    /\ conns_closed = MaxOps

-----------------------------------------------------------------------------
(* Properties of the chunking (checked under SpecChunk) *)

\* the extraction of the url is null, or a text without any character
NullOrEmpty == ~arg.extracted \/ arg.ntokens = 0

\* C21: for a url whose extraction is null or empty,
\* process_text_into_chunks_with_embeddings returns zero chunks and raises
\* nothing (so that the batch goes on with the next url).
C21_NoTextNoChunks ==
    (mode = "chunk" /\ NullOrEmpty) =>
        /\ pc # "fatal"
        /\ exc = NoExc
        /\ pc = "done" => result.chunks = <<>>

ChunkingEnded == mode = "chunk" /\ pc = "done" /\ arg.extracted

\* C22: for a text of N >= 1 tokens the chunking loop terminates (every turn
\* moves start_idx forward, below N) and the windows cover [0, N) without a
\* gap: the first starts at token 0, each next one starts no later than the
\* token after the previous window's last, the last ends at token N - 1, and
\* each chunk's text is the original text from the first token's start offset
\* to the last token's end offset.
C22_ChunkCoverage ==
    /\ [](ChunkingEnded =>
            LET N == arg.ntokens
            IN  /\ N >= 1
                /\ result.chunks # <<>>
                /\ result.chunks[1].first = 0
                /\ result.chunks[Len(result.chunks)].last = N - 1
                /\ \A i \in 1..(Len(result.chunks) - 1) :
                       result.chunks[i + 1].first <= result.chunks[i].last + 1
                /\ \A t \in 0..(N - 1) :
                       \E i \in 1..Len(result.chunks) :
                           result.chunks[i].first <= t /\ t <= result.chunks[i].last
                /\ \A i \in 1..Len(result.chunks) :
                       /\ result.chunks[i].first <= result.chunks[i].last
                       /\ result.chunks[i].text[1] = result.chunks[i].first * (1 + arg.gap)
                       /\ result.chunks[i].text[2] = result.chunks[i].last * (1 + arg.gap) + 1)
    /\ []((mode = "chunk" /\ pc = "chunk_loop" /\ arg.ntokens >= 1) =>
            (start_idx < arg.ntokens /\ ENABLED ChunkStep))
    /\ [][(mode = "chunk" /\ pc = "chunk_loop" /\ pc' = "chunk_loop") =>
            start_idx' > start_idx]_vars

\* a text of three windows, the last one clipped to the end of the text
C22_Witness ==
    /\ ChunkingEnded
    /\ arg.ntokens = 1000
    /\ Len(result.chunks) = 3
    /\ result.chunks[2].first = 448
    /\ result.chunks[3].last = 999

-----------------------------------------------------------------------------
(* Properties of the vector store (checked under SpecDb) *)

InsertRunning == arg.kind = "op" /\ arg.op = "insert"

ShapesMatch ==
    arg.embeddings.dim = CHUNK_DIM /\ Len(arg.chunks) = Len(arg.embeddings.vecs)

\* C23: a rejected insert leaves the store unchanged: when the embedding
\* dimension is not the declared one, or chunks and embeddings differ in
\* number, or the store raises during the write, insert_embeddings_into_db
\* ends with an error and the table is what it was before the call: none of
\* the call's rows is stored and the rows that were there keep their values.
C23_RejectedInsertChangesNothing ==
    /\ (InsertRunning /\ pc = "raised") => (exc # NoExc /\ store = store_before)
    /\ (InsertRunning /\ ~ShapesMatch) =>
           (pc \in {"ins_assert", "raised"} /\ store = store_before)
    /\ (InsertRunning /\ exc # NoExc) =>
           (pc \in {"ins_except", "ins_finally", "raised"} /\ store = store_before)

\* the write raised after a row was written in the transaction over a table
\* that was not empty, and the rollback raised too
C23_Witness ==
    /\ InsertRunning
    /\ pc = "raised"
    /\ exc.msg = ConnectError
    /\ fetched # "rolled_back"
    /\ store # {}
    /\ conn = "closed"
    /\ \E n \in records(arg) : \E r \in store : SameKey(r, n) /\ r # n

InsertReturned == InsertRunning /\ pc = "returned"

\* C24: the table holds at most one row per (url, chunk_index) in every
\* state; inserting rows that are in the table already leaves the table as it
\* is (twice is the same as once); inserting under an existing key replaces
\* that row's text and embedding by the latest write, and no other row changes.
C24_UpsertIdempotentLatestWins ==
    /\ \A r, n \in store : SameKey(r, n) => r = n
    /\ \A r, n \in pending : SameKey(r, n) => r = n
    /\ InsertReturned =>
           /\ records(arg) \subseteq store
           /\ records(arg) \subseteq store_before => store = store_before
           /\ \A r \in store_before :
                  (~\E n \in records(arg) : SameKey(r, n)) => r \in store
           /\ store \subseteq store_before \cup records(arg)

\* an insert that replaced the text and the embedding of a row
C24_Witness ==
    /\ InsertReturned
    /\ \E n \in records(arg) : \E r \in store_before :
           /\ SameKey(r, n)
           /\ r.chunk_text # n.chunk_text
           /\ r.embedding # n.embedding
           /\ n \in store
           /\ r \notin store

RetrieveRunning == arg.kind = "op" /\ arg.op = "retrieve"

RetrieveReturned == RetrieveRunning /\ pc = "returned"

\* no statement of the retrieval raised, and a query was given
StoreAnswered == fetched \in {"store_empty", "primary", "fallback"}

\* C25: with M rows in the table and a store that does not fail, the
\* retrieval for k returns k chunks when k <= M and M chunks when k > M, in
\* order of non-decreasing distance, each the chunk of a row of the table, no
\* row twice, and no row left out is nearer than a row returned; this on
\* the ORDER BY ... LIMIT path and on the fallback path.
C25_TopK ==
    (RetrieveReturned /\ StoreAnswered) =>
        LET out == result.chunks
            M   == Cardinality(store)
            q   == arg.refined_queries[1]
            all == { [url |-> r.url, chunk_index |-> r.chunk_index,
                      chunk_text |-> r.chunk_text,
                      distance |-> distance(q, r.embedding)] : r \in store }
            got == { out[i] : i \in 1..Len(out) }
        IN  /\ Len(out) = IF arg.k <= M THEN arg.k ELSE M
            /\ \A i \in 1..(Len(out) - 1) : out[i].distance <= out[i + 1].distance
            /\ got \subseteq all
            /\ Cardinality(got) = Len(out)
            /\ \A s \in all \ got : \A g \in got : g.distance <= s.distance

\* the fallback path over four rows of two distances, cut to two
C25_Witness ==
    /\ RetrieveReturned
    /\ fetched = "fallback"
    /\ arg.k = 2
    /\ Cardinality(store) = 4
    /\ Len(result.chunks) = 2
    /\ result.chunks[1].distance = 1
    /\ \E r \in store : distance(arg.refined_queries[1], r.embedding) = 2

Issued(q) == \E i \in 1..Len(db_log) : db_log[i] = <<q>>

PrimaryQuery(refined) ==
    (CHOOSE r \in { refined[i] : i \in 1..Len(refined) } : r.role = "primary").query

\* C27: the retrieval ranks the rows against the refined query tagged
\* primary, wherever that query stands in the list of refined queries: the
\* distance of every chunk returned is the distance of its row from the
\* primary query.
C27_RanksAgainstPrimary ==
    (RetrieveReturned /\ StoreAnswered) =>
        \A i \in 1..Len(result.chunks) :
            \E r \in store :
                /\ r.url = result.chunks[i].url
                /\ r.chunk_index = result.chunks[i].chunk_index
                /\ result.chunks[i].distance = distance(PrimaryQuery(arg.refined), r.embedding)

-----------------------------------------------------------------------------
(* Properties of the oracle client (checked under SpecFn) *)

\* an envelope lacking an expected field: no choices, empty choices, no
\* message, no content, or a null content
Malformed(data) ==
    \/ data.choices = JAbsent
    \/ data.choices = JList(<<>>)
    \/ /\ data.choices.t = "list"
       /\ data.choices.v # <<>>
       /\ data.choices.v[1].t = "obj"
       /\ LET message == data.choices.v[1].v.message
          IN  \/ message = JAbsent
              \/ /\ message.t = "obj"
                 /\ message.v.content \in { JAbsent, JNull }

EnvelopeRead == mode = "envelope" /\ pc # "call" /\ exc # Err(TransportError)

\* C28: for every envelope lacking an expected field (no choices, empty
\* choices, no message, no content, or a null content), call_llm_messages
\* raises an error whose message contains the envelope, and returns no text.
C28_MalformedEnvelopeRaisesWithEnvelope ==
    (EnvelopeRead /\ Malformed(arg.data)) =>
        /\ pc = "fatal"
        /\ result = NoResult
        /\ arg.data \in exc.text

\* what holds of the code: every such envelope is fatal and gives no text, and
\* the message carries the envelope unless the content is null
C28_MalformedEnvelopeIsFatal ==
    (EnvelopeRead /\ Malformed(arg.data)) =>
        /\ pc = "fatal"
        /\ result = NoResult
        /\ \/ arg.data \in exc.text
           \/ /\ exc = Err(AttributeError)
              /\ arg.data.choices.v[1].v.message.v.content = JNull

-----------------------------------------------------------------------------
(* Properties of the step ceiling at the sub-agent boundary (checked under Spec) *)

\* the run of the SQL sub-agent ended at its ceiling with the canned answer
Exhausted(o) ==
    /\ o.do = "return"
    /\ o.final_answer = SQL_INCONCLUSIVE
    /\ Len(o.history) = SqlAgentMaxSteps

\* C29: when the SQL sub-agent exhausts its ceiling, call_sql_agent returns to
\* the orchestrator a result with success = true, error = null, the canned
\* inconclusive answer and steps_taken equal to the ceiling, and the
\* orchestrator loop continues.
C29_ExhaustionNotAnError ==
    mode = "unified" =>
        \A i \in DOMAIN tool_calls :
            (tool_calls[i].tool = "sql" /\ Exhausted(tool_calls[i].outcome)) =>
                history[i].result = [success |-> TRUE, answer |-> SQL_INCONCLUSIVE,
                                     steps_taken |-> SqlAgentMaxSteps, error |-> JNull]

\* what holds of the code: the loop of run_sql_agent leaves its ceiling with the
\* canned answer and one entry per step, raising nothing; the result of
\* call_sql_agent is the one above when every sql of the history is a string,
\* and the orchestrator goes on in either case
C29_ExhaustionWithStringSql ==
    /\ [][(mode = "sql" /\ pc = "loop" /\ step >= max_steps) =>
             /\ pc' = "done"
             /\ exc' = NoExc
             /\ result'.final_answer = SQL_INCONCLUSIVE
             /\ Len(result'.history) = max_steps]_vars
    /\ [](mode = "unified" =>
            \A i \in DOMAIN tool_calls :
                (/\ tool_calls[i].tool = "sql"
                 /\ Exhausted(tool_calls[i].outcome)
                 /\ \A j \in DOMAIN tool_calls[i].outcome.history :
                        is_str(tool_calls[i].outcome.history[j])) =>
                    history[i].result = [success |-> TRUE, answer |-> SQL_INCONCLUSIVE,
                                         steps_taken |-> SqlAgentMaxSteps,
                                         error |-> JNull])
    /\ [][(mode = "unified" /\ pc = "call_sql_agent") =>
             /\ pc' = "loop"
             /\ exc' = NoExc]_vars

\* a run of run_sql_agent has ended at its ceiling with a history that holds a
\* sql that is not a string
C29_ExhaustedWithNonStringSql ==
    /\ mode = "sql"
    /\ pc = "done"
    /\ result.final_answer = SQL_INCONCLUSIVE
    /\ Len(result.history) = max_steps
    /\ \E j \in DOMAIN result.history : ~is_str(result.history[j].sql)

-----------------------------------------------------------------------------
(* Properties of the history of the loops (checked under Spec) *)

InLoop == mode \in {"sql", "unified"}

\* C30: in both loops the history only grows by appending one entry per
\* non-finishing step, earlier entries are never modified, removed or
\* reordered, and at the n-th oracle call of a run the context carries exactly
\* the n-1 entries of steps 1..n-1.
C30_HistoryAppendOnly ==
    /\ [][InLoop =>
             \/ history' = history
             \/ /\ Len(history') = Len(history) + 1
                /\ SubSeq(history', 1, Len(history)) = history
                /\ history'[Len(history')].step = step]_vars
    /\ [](InLoop => \A i \in DOMAIN history : history[i].step = i)
    /\ []((InLoop /\ pc = "loop") => Len(history) = step)
    /\ []((InLoop /\ pc = "done") => result.history = history)
    /\ [][(InLoop /\ oracle_calls' = oracle_calls + 1) =>
             /\ step' = oracle_calls'
             /\ context'.history = history
             /\ Len(context'.history) = oracle_calls' - 1
             /\ \A i \in DOMAIN context'.history : context'.history[i].step = i
             /\ history' = history]_vars
    /\ []((InLoop /\ pc = "dispatch") => context.history = history)

\* C30 witness: the third oracle call of an orchestrator run has been made with
\* the entries of steps 1 and 2, a SQL sub-agent result and a web result.
C30_Witness ==
    /\ mode = "unified"
    /\ pc = "dispatch"
    /\ oracle_calls = 3
    /\ Len(context.history) = 2
    /\ context.history[1].action = "CALL_SQL_AGENT"
    /\ context.history[2].action = "CALL_WEB_AGENT"
    /\ context.history[1].step = 1
    /\ context.history[2].step = 2

-----------------------------------------------------------------------------
(* Properties of the name normalisation step of run_sql_agent (checked under Spec) *)

\* the normaliser has returned
Normalized == name_norm \in NormResults

\* C31: exactly one name-normalization oracle call is made per SQL sub-agent
\* run, it completes before the first loop oracle call, and its result is
\* passed unchanged as name_normalization in the context of every step and in
\* the returned result; if the normalizer fails, the run fails before any loop
\* oracle call or SQL execution.
C31_NormalizeOnceFirst ==
    /\ [][mode = "sql" =>
             /\ pc' # pc => pc' # "normalize"
             /\ name_norm' # name_norm =>
                   /\ pc = "normalize"
                   /\ name_norm = "unset"
                   /\ name_norm' \in NormResults
                   /\ oracle_calls = 0
                   /\ conns_opened = 0
                   /\ db_log = <<>>]_vars
    /\ []((mode = "sql" /\ pc # "normalize" /\ ~Normalized) =>
             /\ pc = "fatal"
             /\ exc = Err(NormalizerError)
             /\ oracle_calls = 0
             /\ conns_opened = 0
             /\ db_log = <<>>
             /\ history = <<>>)
    /\ []((mode = "sql" /\ oracle_calls > 0) =>
             /\ Normalized
             /\ context.name_normalization = name_norm)
    /\ []((mode = "sql" /\ pc = "done") =>
             /\ Normalized
             /\ result.name_normalization = name_norm)

\* C31 witness: a run has returned at its third step with the mentions the
\* normaliser gave, which the context of that step carried too.
C31_Witness ==
    /\ mode = "sql"
    /\ pc = "done"
    /\ oracle_calls = 3
    /\ name_norm = "players: Tom, Pat"
    /\ context.name_normalization = "players: Tom, Pat"
    /\ result.name_normalization = "players: Tom, Pat"
    /\ Len(result.history) = 2

-----------------------------------------------------------------------------
(* Properties of one web retrieval pass (checked under SpecPass) *)

\* the positions of the log at which main called `name`
CallsOf(name) == { j \in DOMAIN main.log : main.log[j].call = name }

\* the hit at position i of the results has been processed and, when it gave
\* chunks, its insert has returned, before position j of the log
HitSettledBefore(i, j) ==
    \E p \in 1..(j - 1) :
        /\ main.log[p] = Call("process_text", i)
        /\ \/ p + 1 < j /\ main.log[p + 1] = Call("insert_embeddings_into_db", i)
                        /\ \E r \in (p + 2)..(j - 1) : main.log[r] = Call("inserted", i)
           \/ p + 1 <= j /\ main.log[p + 1] # Call("insert_embeddings_into_db", i)

\* C32: in one web retrieval pass the stages run in the order refine, search,
\* fetch/extract, chunk, embed, store, rank: the single ranking query is issued
\* only after the store writes for every surviving search hit have completed,
\* and exactly one ranking call is made per pass.
C32_StagesInOrder ==
    /\ [](mode = "pass" =>
            /\ \A j \in DOMAIN main.log :
                  /\ main.log[j].call = "process_query" <=> j = 1
                  /\ main.log[j].call = "search_web" <=> j = 2
                  /\ main.log[j].call = "retrieve_top_k_chunks" =>
                        /\ j = Len(main.log)
                        /\ \A i \in DOMAIN main.results : HitSettledBefore(i, j)
                  /\ main.log[j].call = "insert_embeddings_into_db" =>
                        main.log[j - 1] = Call("process_text", main.log[j].i)
                  /\ main.log[j].call = "process_text" =>
                        \A i \in 1..(main.log[j].i - 1) : HitSettledBefore(i, j)
            /\ Cardinality(CallsOf("retrieve_top_k_chunks")) <= 1
            /\ Cardinality({ j \in DOMAIN db_log : db_log[j] = <<"primary">> }) <= 1
            /\ main.at = "done" => Cardinality(CallsOf("retrieve_top_k_chunks")) = 1)
    /\ [][(mode = "pass" /\ db_log' # db_log) =>
             /\ main.at = "retrieving"
             /\ store' = store
             /\ pending = store]_vars
    /\ [][(mode = "pass" /\ main.at \in {"retrieving", "done"}) => store' = store]_vars
    /\ [][(mode = "pass" /\ main.at = "loop" /\ main'.log # main.log
                          /\ main'.log[Len(main'.log)].call = "process_text"
                          /\ main'.at # "fatal") =>
             (main'.processed.chunks # <<>> <=> main'.at = "insert")]_vars
    /\ [][(mode = "pass" /\ main.at = "insert" /\ main' # main) =>
             /\ main'.at = "inserting"
             /\ records(arg') # {}
             /\ \A r \in records(arg') : r.url = main.results[main.i].href]_vars
    /\ [][(mode = "pass" /\ main.at = "inserting" /\ main'.at = "loop") =>
             /\ records(arg) \subseteq store
             /\ pending = store]_vars

\* C32 witness: a pass over two hits has ended: both were stored, then the one
\* ranking query was issued and answered from the rows just written.
C32_Witness ==
    /\ mode = "pass"
    /\ main.at = "done"
    /\ Len(main.results) = 2
    /\ Cardinality(CallsOf("inserted")) = 2
    /\ db_log = << <<"count">>, <<"primary">> >>
    /\ result.chunks # <<>>
    /\ store_before = store
    /\ \E r \in store : r.url = "u2"

-----------------------------------------------------------------------------
(* Properties of the synthesis prompt (checked under SpecDb) *)

Synthesized == RetrieveRunning /\ "messages" \in DOMAIN result

\* the part of the user message between "Retrieved web context:" and the
\* closing instruction
PromptContext == SubSeq(result.messages[2].content, 4, Len(result.messages[2].content) - 1)

\* C33: empty evidence is not an error and is stated explicitly. A retrieval
\* without refined queries returns an empty list at once, without opening a
\* connection and without raising; a retrieval that counts an empty store
\* returns an empty list and does not raise. From the chunks the retrieval
\* returned, generate_prompt builds a system and a user message for exactly
\* one oracle call: with no chunk, the context is the sentence that no web
\* snippets were retrieved; with chunks, the context lists them in the order
\* the retrieval ranked them (nearest first), each with its position counted
\* from 0, its URL, its chunk index and its text, and does not hold that
\* sentence.
C33_EmptyEvidenceStated ==
    /\ [](RetrieveRunning =>
            /\ arg.refined_queries = <<>> =>
                  /\ pc # "raised" \/ Synthesized
                  /\ conn = "none" /\ db_log = <<>>
                  /\ pc \in {"returned", "synthesized"} => result.chunks = <<>>
            /\ (store = {} /\ db_log # <<>>) =>
                  /\ db_log = << <<"count">> >>
                  /\ exc = NoExc \/ Synthesized
                  /\ pc \in {"returned", "synthesized"} => result.chunks = <<>>
            /\ Synthesized =>
                  LET n == Len(result.chunks)
                  IN  /\ Len(result.messages) = 2
                      /\ result.messages[1].role = "system"
                      /\ result.messages[2].role = "user"
                      /\ result.messages[2].content[2] = result.original_query
                      /\ n = 0 <=> PromptContext = <<NO_SNIPPETS>>
                      /\ n > 0 =>
                            /\ Len(PromptContext) = 10 * n - 1
                            /\ \A t \in DOMAIN PromptContext : PromptContext[t] # NO_SNIPPETS
                            /\ \A i \in 1..n :
                                  LET at == 10 * (i - 1)
                                  IN  /\ PromptContext[at + 1] = "[Source "
                                      /\ PromptContext[at + 2] = format_int(i - 1)
                                      /\ PromptContext[at + 4] = result.chunks[i].url
                                      /\ PromptContext[at + 6] =
                                            format_int(result.chunks[i].chunk_index)
                                      /\ PromptContext[at + 8] = result.chunks[i].chunk_text
                            /\ \A i \in 1..(n - 1) :
                                  result.chunks[i].distance <= result.chunks[i + 1].distance)
    /\ [][(RetrieveRunning /\ pc = "returned" /\ pc' # "idle" /\ pc' # pc) =>
             /\ "messages" \in DOMAIN result'
             /\ result'.chunks = result.chunks
             /\ oracle_calls' = oracle_calls + 1]_vars
    /\ [][(RetrieveRunning /\ ~(pc = "returned")) => oracle_calls' = oracle_calls]_vars

\* an empty store was counted, the retrieval returned no chunk, and the
\* prompt was built and answered
C33_Witness ==
    /\ Synthesized
    /\ pc = "synthesized"
    /\ arg.refined_queries # <<>>
    /\ store = {}
    /\ fetched = "store_empty"
    /\ result.chunks = <<>>
    /\ PromptContext = <<NO_SNIPPETS>>

-----------------------------------------------------------------------------
(* Algebraic properties of the extractor (checked under SpecFn) *)

ExtractedTwice == mode = "extract" /\ pc = "again"

BraceBeforeBrace(x) == \E i, j \in DOMAIN x : i < j /\ x[i] = "{" /\ x[j] = "}"

\* C34: extract_json_object is idempotent, extract(extract(x)) = extract(x)
\* for every text x; and whenever x holds a "{" somewhere before a "}", the
\* result begins with "{" and ends with "}".
C34_ExtractIdempotent ==
    /\ ExtractedTwice => result.again = result.text
    /\ (mode = "extract" /\ pc \in {"done", "again"} /\ BraceBeforeBrace(arg.text)) =>
          /\ result.text # <<>>
          /\ result.text[1] = "{"
          /\ result.text[Len(result.text)] = "}"

\* the text with two fenced blocks, whose result is a span that begins inside
\* the first block, was extracted twice
C34_Witness ==
    /\ ExtractedTwice
    /\ arg.text = text_two_blocks
    /\ result.text # arg.text
    /\ result.text[1] = "{"
    /\ result.again = result.text

-----------------------------------------------------------------------------
(* The structure of the chunk windows (checked under SpecChunk) *)

\* ceil(a / b) for a >= 0, b > 0
ceil_div(a, b) == (a + b - 1) \div b

\* the number of tokens of a window
Width(w) == w.last - w.first + 1

WindowCount(N) ==
    IF N <= CHUNK_SIZE THEN 1
    ELSE 1 + ceil_div(N - CHUNK_SIZE, CHUNK_SIZE - CHUNK_OVERLAP)

\* the windows emitted so far are windows of size C = CHUNK_SIZE and overlap
\* O = CHUNK_OVERLAP
WindowsWellFormed(ws) ==
    /\ \A i \in 1..Len(ws) : Width(ws[i]) >= 1 /\ Width(ws[i]) <= CHUNK_SIZE
    /\ \A i \in 1..(Len(ws) - 1) :
          /\ Width(ws[i]) = CHUNK_SIZE
          /\ ws[i + 1].first = ws[i].first + (CHUNK_SIZE - CHUNK_OVERLAP)
          /\ ws[i].last - ws[i + 1].first + 1 = CHUNK_OVERLAP
          /\ ws[i + 1].last > ws[i].last

\* C35: chunk window structure. For a text of N tokens, every window holds at
\* most C tokens, every window but the last holds exactly C, each window
\* starts C - O tokens after the one before it (they share exactly O tokens),
\* each window ends after the one before it ends, and the call gives 1 window
\* when N <= C and 1 + ceil((N - C) / (C - O)) windows otherwise.
C35_WindowStructure ==
    (mode = "chunk" /\ arg.extracted) =>
        /\ WindowsWellFormed(chunks)
        /\ pc # "fatal"
        /\ pc = "done" => Len(result.chunks) = WindowCount(arg.ntokens)

\* The same for the texts that have a token.
C35_WindowStructureOfTokens ==
    (mode = "chunk" /\ arg.extracted /\ arg.ntokens >= 1) =>
        /\ WindowsWellFormed(chunks)
        /\ pc # "fatal"
        /\ pc = "done" =>
              /\ result.chunks = chunks
              /\ Len(result.chunks) = WindowCount(arg.ntokens)

\* a text of 961 tokens: one token more than two full windows cover
C35_ThreeWindows ==
    /\ ChunkingEnded
    /\ arg.ntokens = 961
    /\ Len(result.chunks) = 3
    /\ Width(result.chunks[3]) = CHUNK_OVERLAP + 1

-----------------------------------------------------------------------------
(* Rows of an earlier version of a document (checked under SpecDb) *)

\* the keys an insert for arg.url with arg.chunks writes
WrittenKeys == { <<arg.url, i>> : i \in 0..(Len(arg.chunks) - 1) }

Key(r) == <<r.url, r.chunk_index>>

\* a row of a url whose index is beyond the chunks of the url's latest insert
Stale(r) == r.url = arg.url /\ r.chunk_index >= Len(arg.chunks)

\* C36: re-processing a url touches only matching keys. An insert for url U
\* with n chunks that commits writes exactly the keys (U, 0) .. (U, n - 1) and
\* leaves every other row as it was: the rows of other urls, and the rows
\* (U, i) with i >= n of an earlier, longer version of U. Those rows stay in
\* the table, and a later ranking query ranks over every row of the table,
\* not only over the rows of the latest insert: a row is left out of the
\* result only when k rows at least as near were returned.
C36_StaleRowsRemain ==
    /\ [][(InsertRunning /\ store' # store) =>
             /\ { Key(r) : r \in store' \ store } \subseteq WrittenKeys
             /\ { Key(r) : r \in store \ store' } \subseteq WrittenKeys
             /\ \A key \in WrittenKeys : \E r \in store' : Key(r) = key /\ r \in records(arg)
             /\ \A r \in store : Key(r) \notin WrittenKeys => r \in store'
             /\ \A r \in store : Stale(r) => r \in store']_vars
    /\ [](InsertReturned =>
             /\ { Key(r) : r \in records(arg) } = WrittenKeys
             /\ \A r \in store_before : Stale(r) => r \in store)
    /\ []((RetrieveReturned /\ StoreAnswered) =>
             \A r \in store :
                 \/ \E i \in 1..Len(result.chunks) :
                       /\ result.chunks[i].url = r.url
                       /\ result.chunks[i].chunk_index = r.chunk_index
                       /\ result.chunks[i].chunk_text = r.chunk_text
                 \/ /\ Len(result.chunks) = arg.k
                    /\ \A i \in 1..Len(result.chunks) :
                          result.chunks[i].distance
                              <= distance(arg.refined_queries[1], r.embedding))
    /\ [][(RetrieveRunning \/ RetrieveRunning') => store' = store]_vars

\* u1 was stored with two chunks and then with one; the retrieval returns
\* the second chunk of the earlier version first
C36_Witness ==
    /\ RetrieveReturned
    /\ store = { Row("u1", 0, "tb", "e2"), Row("u1", 1, "tb", "e2") }
    /\ arg.refined_queries = <<"q2", "q1">>
    /\ arg.k = 1
    /\ result.chunks # <<>>
    /\ result.chunks[1].chunk_index = 1

-----------------------------------------------------------------------------
(* The nested budget of the orchestrator and its SQL sub-agent (checked     *)
(* under Spec)                                                              *)

\* the statements one run of the SQL sub-agent handed to execute_sql: one per
\* history entry; a run that raised at step n had made n - 1 entries
StatementsOf(o) ==
    IF o.do = "return" THEN Len(o.history)
    ELSE IF o.exc.step > 0 THEN o.exc.step - 1 ELSE 0

RECURSIVE TotalStatements(_)
TotalStatements(calls) ==
    IF calls = <<>> THEN 0
    ELSE TotalStatements(SubSeq(calls, 1, Len(calls) - 1))
         + (IF calls[Len(calls)].tool = "sql"
            THEN StatementsOf(calls[Len(calls)].outcome) ELSE 0)

-----------------------------------------------------------------------------
(* Store errors during the retrieval (checked under SpecDb) *)

\* a statement of the retrieval raised and the except clause took it
Swallowed == RetrieveRunning /\ fetched = "swallowed"

\* C38: an exception the store raises during the retrieval, in the row
\* count, the ordered query or the fallback query, does not leave
\* retrieve_top_k_chunks: no further statement is issued, the connection is
\* closed, and the call returns the empty list, the same value it returns for
\* an empty store.
C38_StoreErrorsSwallowed ==
    /\ [](Swallowed =>
            /\ db_log # <<>>
            /\ db_log[Len(db_log)] \in { <<"count">>, <<"primary">>, <<"fallback">> }
            /\ pc \in {"ret_finally", "returned", "synthesized"} \/ Synthesized
            /\ ~Synthesized => exc = NoExc
            /\ rows = <<>>
            /\ pc = "returned" =>
                  /\ result = [chunks |-> <<>>]
                  /\ conn = "closed"
                  /\ conns_closed = conns_opened)
    /\ []((RetrieveReturned /\ fetched = "store_empty") => result = [chunks |-> <<>>])
    /\ [][Swallowed => db_log' \in {db_log, <<>>}]_vars
    /\ [][(RetrieveRunning /\ pc \in {"ret_count", "ret_primary", "ret_fallback"}) =>
             pc' \in {"ret_primary", "ret_fallback", "ret_finally"}]_vars

\* the count and the ordered query answered, the fallback query raised
C38_Witness ==
    /\ RetrieveReturned
    /\ fetched = "swallowed"
    /\ db_log = << <<"count">>, <<"primary">>, <<"fallback">> >>
    /\ store # {}
    /\ result.chunks = <<>>
    /\ conn = "closed"

-----------------------------------------------------------------------------
(* Properties of the conversation store (checked under SpecChat) *)

\* the list the map holds for a conversation id
Stored(c) == heap[conversations[c]]

\* a handler is between the append and the end of add_to_history
Truncating(t) == threads[t].pc \in {"len_check", "slice", "rebind"}

\* the lines of a prompt that come from earlier messages
ContextLines(prompt) ==
    IF Len(prompt) <= 1 THEN <<>> ELSE SubSeq(prompt, 2, Len(prompt) - 1)

\* C39: conversation store bound. When the requests are handled one after
\* the other, after every add_to_history and every clear each conversation of
\* the map holds at most 20 messages, which are the ones added last since the
\* conversation was cleared, in the order they were added; a step that adds to
\* or clears one conversation id leaves the list of every other id as it is;
\* and the prompt built for a question holds at most 10 earlier messages, the
\* last ones before the question in their order, and not the question's own
\* message.
C39_ConversationBound ==
    /\ []((mode = "sequential" /\ \A t \in Threads : ~Truncating(t)) =>
            \A c \in ConvIds :
                IF c \in DOMAIN conversations
                THEN /\ Len(Stored(c)) <= HistoryKept
                     /\ Stored(c) = last_n(added.log[c], HistoryKept)
                ELSE added.log[c] = <<>>)
    /\ [][mode = "sequential" =>
             \A c \in DOMAIN conversations :
                 (\A t \in Threads : threads[t].conv # c /\ threads'[t].conv # c) =>
                     /\ c \in DOMAIN conversations'
                     /\ heap'[conversations'[c]] = heap[conversations[c]]]_vars
    /\ [](mode = "sequential" =>
            \A t \in Threads :
                threads[t].pc = "agent" =>
                    LET log    == added.log[threads[t].conv]
                        before == all_but_last(log)
                        lines  == ContextLines(threads[t].prompt)
                        n      == IF Len(before) <= ContextWindow
                                  THEN Len(before) ELSE ContextWindow
                    IN  /\ log[Len(log)] = threads[t].msg
                        /\ Len(lines) = n
                        /\ Len(lines) <= ContextWindow
                        /\ \A i \in 1..n :
                              /\ lines[i].content = before[Len(before) - n + i].content
                              /\ lines[i].label = "User"
                                    <=> before[Len(before) - n + i].role = "user"
                        /\ \A i \in 1..n : lines[i].content # threads[t].msg.content
                        /\ threads[t].prompt[Len(threads[t].prompt)].content
                              = threads[t].msg.content)

\* a question asked in a conversation of 22 earlier messages, of which the
\* map holds the last 20 with the question, and the prompt the last 10
C39_Witness ==
    /\ mode = "sequential"
    /\ threads[1].pc = "agent"
    /\ threads[1].conv = "c1"
    /\ Len(added.log["c1"]) = 23
    /\ Len(Stored("c1")) = HistoryKept
    /\ Stored("c1")[HistoryKept] = threads[1].msg
    /\ Len(ContextLines(threads[1].prompt)) = ContextWindow
    /\ ContextLines(threads[1].prompt)[ContextWindow].content = 22

\* C40: with the server running threaded, two add_to_history calls on one
\* conversation id that interleave never lose a message: once the handlers
\* have finished, every message appended under the id since its last clear is
\* in the stored conversation, unless it is no longer among the last 20
\* appended.
C40_NoLostMessage ==
    (mode = "threaded" /\ \A t \in Threads : threads[t].pc \in {"idle", "done"}) =>
        \A c \in ConvIds :
            \A i \in DOMAIN added.log[c] :
                i > Len(added.log[c]) - HistoryKept =>
                    /\ c \in DOMAIN conversations
                    /\ \E j \in DOMAIN Stored(c) : Stored(c)[j] = added.log[c][i]

\* The same for handlers that do not overlap.
C40_NoLostMessageSequential ==
    (mode = "sequential" /\ \A t \in Threads : threads[t].pc \in {"idle", "done"}) =>
        \A c \in ConvIds :
            \A i \in DOMAIN added.log[c] :
                i > Len(added.log[c]) - HistoryKept =>
                    /\ c \in DOMAIN conversations
                    /\ \E j \in DOMAIN Stored(c) : Stored(c)[j] = added.log[c][i]

\* a conversation that held 20 messages when the requests began has lost one
\* of the last messages appended to it
C40_LostAtTruncation ==
    /\ mode = "threaded"
    /\ \A t \in Threads : threads[t].pc \in {"idle", "done"}
    /\ heap # <<>>
    /\ Len(heap[1]) >= HistoryKept
    /\ \E i \in DOMAIN added.log["c1"] :
          /\ i > Len(added.log["c1"]) - HistoryKept
          /\ \A j \in DOMAIN Stored("c1") : Stored("c1")[j] # added.log["c1"][i]

=============================================================================
